---- MODULE Spec2Model ----
(***************************************************************************)
(* A state-machine model of the per-node agent of lablup/sorna-agent       *)
(* (src/ai/backend/agent/agent.py): the kernel registry, the port pool,    *)
(* the allocation maps, the lifecycle queue with its consumer and its      *)
(* START / DESTROY / CLEAN handlers, the reconciler, the creation pipeline *)
(* and the restart coordinator.  Every coroutine is cut at its awaits: one *)
(* action is the code that runs between two suspension points.             *)
(***************************************************************************)
EXTENDS Integers, Sequences, FiniteSets, Bags, TLC

----------------------------------------------------------------------------
(* Bounds of the model.                                                    *)

\* kernel-ids the manager may use
MaxKernels == 2
\* size of the configured host port range  container.port-range
NumPorts == 2
\* what the environment does to a running agent: RPC destroy_kernel and
\* restart_kernel calls, reconciler ticks, containers that stop by
\* themselves, backend or pipeline calls that raise
MaxEvents == 2
\* create_kernel RPC calls in the pipeline at the same time
MaxCreating == 1
\* images that have to be pulled
MaxPulls == 0

KernelIds == 1..MaxKernels
PortRange == 1..NumPorts
\* a host port of a container started under an older port-range setting
OutOfRangePort == NumPorts + 1
Devices == {"cpu", "cuda"}
\* the slots every device offers (detect_resources) and every kernel asks for
Capacity == [d \in Devices |-> IF d = "cpu" THEN MaxKernels ELSE MaxKernels - 1]
SlotRequest == [d \in Devices |-> 1]
NoAlloc == [d \in Devices |-> 0]
\* host ports one kernel binds (the exposed ports of its container)
PortsPerKernel == 1

----------------------------------------------------------------------------
(* State.                                                                  *)

VARIABLES
    kernel_registry,            \* dict kernel-id -> kernel handle
    port_pool,                  \* set of free host ports
    alloc_map,                  \* device -> slots allocated
    restarting_kernels,         \* dict kernel-id -> tracker id
    trackers,                   \* tracker id -> RestartTracker
    container_lifecycle_queue,  \* FIFO of ContainerLifecycleEvent
    resource_lock,              \* "" (free) or the holder
    containers,                 \* the backend: dict container-id -> container
    handlers,                   \* bag of handler tasks in flight
    calls,                      \* dict call id -> RPC call (create / restart)
    sync_alive,                 \* the reconciler's alive_kernels while it runs
    kernel_terminated,          \* kernel-id -> reasons of the published kernel_terminated
    budget,                     \* what the environment may still do
    booted,                     \* __ainit__ has run scan_running_kernels
    last_registry,              \* the persisted registry file, or NoFile
    runner,                     \* the kernel runner of one kernel (kernel.py)
    log_shipper,                \* one collect_logs call and the list it pushes to
    krunner_match,              \* one match_krunner_volume call
    console,                    \* one aggregate_console call
    lifecycle_handler           \* the consumer task: "running" or "done"

agentVars == <<kernel_registry, port_pool, alloc_map, restarting_kernels, trackers,
               container_lifecycle_queue, resource_lock>>
taskVars == <<handlers, calls, sync_alive>>
auxVars == <<log_shipper, krunner_match, console, lifecycle_handler>>
envVars == <<containers, kernel_terminated, budget, booted, last_registry, runner, auxVars>>
vars == <<agentVars, taskVars, envVars>>

----------------------------------------------------------------------------
(* Data.                                                                   *)

None == 0
NoReason == ""
EmptyDict == <<>>
\* the registry file last_registry.<agent-id>.dat: missing, or a pickled dict
NoFile == [exists |-> FALSE, registry |-> EmptyDict]
File(reg) == [exists |-> TRUE, registry |-> reg]
\* AbstractKernelRunner.__init__: no active queue, no pending queue, no run;
\* received and delivered record what the reader has taken off the transport
\* and what the requests have taken out of the queues
NoRunner ==
    [output_queue |-> None, pending_queues |-> <<>>, current_run_id |-> None,
     queues |-> <<>>, sock |-> <<>>, executing |-> <<>>, requests |-> <<>>,
     watchdog |-> "off", reader |-> [q |-> None, rec |-> [msg_type |-> "", run |-> None]],
     received |-> <<>>, delivered |-> <<>>]

\* no collect_logs call, no match_krunner_volume call
NoLogs == [pc |-> "none"]
NoMatch == [pc |-> "none"]
NoConsole == [pc |-> "none"]

\* dict helpers (Python dict semantics)
Has(d, k) == k \in DOMAIN d
Put(d, k, v) == [x \in DOMAIN d \cup {k} |-> IF x = k THEN v ELSE d[x]]
Pop(d, k) == [x \in DOMAIN d \ {k} |-> d[x]]

RECURSIVE SumOver(_, _)
SumOver(S, f) ==
    IF S = {} THEN 0
    ELSE LET x == CHOOSE y \in S : TRUE IN f[x] + SumOver(S \ {x}, f)

\* the orders in which a set may be iterated
Orders(S) == {s \in [1..Cardinality(S) -> S] : \A i, j \in DOMAIN s : i # j => s[i] # s[j]}

KernelObj(cid, ports) ==
    [container_id |-> cid, host_ports |-> ports, termination_reason |-> NoReason,
     stats_enabled |-> FALSE, clean_event |-> None]

Container(k, ports, status, kernelspec_ok, notified) ==
    [kernel_id |-> k, host_ports |-> ports, status |-> status,
     kernelspec_ok |-> kernelspec_ok, notified |-> notified]

ContainerLifecycleEvent(k, cid, event, reason, done) ==
    [kernel_id |-> k, container_id |-> cid, event |-> event, reason |-> reason,
     done_event |-> done]

RestartTracker == [request_lock |-> None, destroy_event |-> FALSE, done_event |-> FALSE]

Handler(ev, pc) == [ev |-> ev, pc |-> pc]

ACTIVE_STATUS_SET == {"running", "restarting", "paused"}
DEAD_STATUS_SET == {"exited", "dead", "removing"}

\* handler tasks in flight: asyncio.create_task / task completion
Spawned(h) == handlers (+) SetToBag({h})
Finished(h) == handlers (-) SetToBag({h})
Moved(h, pc) == (handlers (-) SetToBag({h})) (+) SetToBag({Handler(h.ev, pc)})
InFlight == BagToSet(handlers)

\* the id of the container a call spawns: container ids are never reused
SpawnedId(call) == call
\* the id of the container that kernel k ran in before this agent process started
BootId(k) == 100 + k

----------------------------------------------------------------------------
(* inject_container_lifecycle_event: no await inside, one atomic step.     *)

InjectedReason(reg, k, reason) ==
    IF Has(reg, k) /\ reg[k].termination_reason # NoReason
    THEN reg[k].termination_reason ELSE reason

InjectedContainer(reg, k, container_id) ==
    IF Has(reg, k) THEN reg[k].container_id ELSE container_id

\* a faulty inject that forgets the handle instead of updating it
InjectDropsHandle(reg, k, clean_event) ==
    IF Has(reg, k) THEN Pop(reg, k) ELSE reg

InjectedRegistry(reg, k, clean_event) ==
    IF Has(reg, k) THEN [reg EXCEPT ![k].clean_event = clean_event] ELSE reg

InjectedEvent(reg, k, event, reason, container_id, done_event) ==
    ContainerLifecycleEvent(k, InjectedContainer(reg, k, container_id), event,
                            InjectedReason(reg, k, reason), done_event)

----------------------------------------------------------------------------
(* The backend and the compute plugins (collaborators).                    *)

\* enumerate_containers(status_filter)
Enumerate(status_filter) == {c \in DOMAIN containers : containers[c].status \in status_filter}

\* restore_from_container over every enumerated container
RestoredAlloc(cs) == [d \in Devices |-> Cardinality(cs) * SlotRequest[d]]

\* rescan_resource_usage: clear every allocation map, then restore from the
\* active containers; all of it under resource_lock
rescan_resource_usage == RestoredAlloc(Enumerate(ACTIVE_STATUS_SET))

\* a call of the backend or of a pipeline stage returns (TRUE) or raises
Outcomes == IF budget.events > 0 THEN {TRUE, FALSE} ELSE {TRUE}
Charged(ok) == IF ok THEN budget ELSE [budget EXCEPT !.events = @ - 1]

----------------------------------------------------------------------------
(* process_lifecycle_events: the single consumer of the lifecycle queue.   *)
(* queue.get() hands over the head event and create_task() starts its      *)
(* handler; the tasks start in the order of their creation, so a handler's *)
(* code up to its first await runs in the order of the queue.              *)

HeadEvent == Head(container_lifecycle_queue)

\* a faulty consumer that goes on after the sentinel
ConsumerNeverReturns == TRUE

\* process_lifecycle_events has not returned
ConsumerRuns == lifecycle_handler = "running"

Dispatching(event) ==
    /\ booted
    /\ ConsumerRuns
    /\ container_lifecycle_queue # <<>>
    /\ HeadEvent.event = event

\* _handle_start_event
DispatchStart ==
    /\ Dispatching("START")
    /\ container_lifecycle_queue' = Tail(container_lifecycle_queue)
    /\ kernel_registry' =
          IF Has(kernel_registry, HeadEvent.kernel_id)
          THEN [kernel_registry EXCEPT ![HeadEvent.kernel_id].stats_enabled = TRUE]
          ELSE kernel_registry
    /\ UNCHANGED <<port_pool, alloc_map, restarting_kernels, trackers, resource_lock,
                   taskVars, envVars>>

----------------------------------------------------------------------------
(* _handle_destroy_event                                                   *)

\* the reason the DESTROY handler records on the handle
DestroyRecordedReason(kernel_obj, ev) == ev.reason

\* a faulty DESTROY handler that forwards CLEAN as an ordinary exit
ForwardedAsExit(ev) ==
    ContainerLifecycleEvent(ev.kernel_id, ev.container_id, "CLEAN", "self-terminated", None)

\* kernel missing, container-id known: the CLEAN the handler puts on the queue
ForwardedClean(ev) ==
    ContainerLifecycleEvent(ev.kernel_id, ev.container_id, "CLEAN", ev.reason, None)

\* up to the first await: the registry lookup and its three branches
DispatchDestroy ==
    LET ev == HeadEvent
        k == ev.kernel_id IN
    /\ Dispatching("DESTROY")
    /\ IF ~Has(kernel_registry, k)
       THEN /\ UNCHANGED kernel_registry
            /\ IF ev.container_id = None
               THEN /\ handlers' = Spawned(Handler(ev, "rescan"))
                    /\ container_lifecycle_queue' = Tail(container_lifecycle_queue)
               ELSE /\ container_lifecycle_queue' =
                          Append(Tail(container_lifecycle_queue), ForwardedClean(ev))
                    /\ handlers' = Spawned(Handler(ev, "destroy"))
       ELSE /\ kernel_registry' =
                  [kernel_registry EXCEPT
                      ![k].stats_enabled = FALSE,
                      ![k].termination_reason = DestroyRecordedReason(kernel_registry[k], ev)]
            /\ handlers' = Spawned(Handler(ev, "destroy"))
            /\ container_lifecycle_queue' = Tail(container_lifecycle_queue)
    /\ UNCHANGED <<port_pool, alloc_map, restarting_kernels, trackers, resource_lock,
                   calls, sync_alive, envVars>>

\* a faulty finally that never sets the done-notifier
DoneNeverSet(cs, done_event) == cs

\* finally: ev.done_event.set() when one is attached; the notifier of an
\* event is the waiting call that created it
DoneSet(cs, done_event) ==
    IF done_event = None THEN cs ELSE [cs EXCEPT ![done_event].pc = "set"]

\* kernel missing, no container-id: rescan_resource_usage(), then
\* produce_event('kernel_terminated', k, 'already-terminated'), return
HandleDestroyMissing(h) ==
    /\ h.ev.event = "DESTROY" /\ h.pc = "rescan"
    /\ resource_lock = ""
    /\ alloc_map' = rescan_resource_usage
    /\ kernel_terminated' =
          [kernel_terminated EXCEPT ![h.ev.kernel_id] = Append(@, "already-terminated")]
    /\ handlers' = Finished(h)
    /\ calls' = DoneSet(calls, h.ev.done_event)
    /\ UNCHANGED <<kernel_registry, port_pool, restarting_kernels, trackers,
                   container_lifecycle_queue, resource_lock, sync_alive,
                   containers, budget, booted, last_registry, runner, auxVars>>

\* destroy_kernel(kernel_id, container_id) of the backend: it stops the
\* container, or raises; the handler logs the exception and ends
BackendDestroyed(container_id, ok) ==
    IF ok /\ container_id # None /\ Has(containers, container_id)
          /\ containers[container_id].status \in ACTIVE_STATUS_SET
    THEN [containers EXCEPT ![container_id].status = "exited"]
    ELSE containers

HandleDestroyBackend(h) ==
    /\ h.ev.event = "DESTROY" /\ h.pc = "destroy"
    /\ \E ok \in Outcomes :
          /\ containers' = BackendDestroyed(h.ev.container_id, ok)
          /\ budget' = Charged(ok)
    /\ handlers' = Finished(h)
    /\ calls' = DoneSet(calls, h.ev.done_event)
    /\ UNCHANGED <<agentVars, sync_alive, kernel_terminated, booted, last_registry, runner, auxVars>>

----------------------------------------------------------------------------
(* _handle_clean_event                                                     *)

\* up to the first await: runner.close() / clean_kernel() are called
DispatchClean ==
    /\ Dispatching("CLEAN")
    /\ container_lifecycle_queue' = Tail(container_lifecycle_queue)
    /\ handlers' = Spawned(Handler(HeadEvent, "clean"))
    /\ UNCHANGED <<kernel_registry, port_pool, alloc_map, restarting_kernels, trackers,
                   resource_lock, calls, sync_alive, envVars>>

\* clean_kernel(kernel_id, container_id, restarting) of the backend: it
\* removes the container, or raises
BackendCleaned(container_id, ok) ==
    IF ok /\ container_id # None /\ Has(containers, container_id)
    THEN Pop(containers, container_id)
    ELSE containers

\* a faulty CLEAN that gives back every host port of the handle
AllHostPorts(kernel_obj) == kernel_obj.host_ports

\* the ports the CLEAN handler gives back
RestoredPorts(kernel_obj) == {p \in kernel_obj.host_ports : p \in PortRange}

\* a faulty CLEAN that publishes whether or not a tracker is registered
CleanAlwaysEmits(k) == TRUE

\* the handler publishes kernel_terminated unless a tracker is registered
CleanEmits(k) == ~Has(restarting_kernels, k)

\* kernel_obj.clean_event.set() when the handle has one; the event is named
\* by the waiting call that created it
CleanEventSet(cs, kernel_obj) ==
    IF kernel_obj.clean_event = None THEN cs
    ELSE [cs EXCEPT ![kernel_obj.clean_event].pc = "set"]

\* the inner finally: done_event, then the restart tracker or rescan + emit
CleanFinish(h, cs) ==
    LET k == h.ev.kernel_id IN
    /\ calls' = DoneSet(cs, h.ev.done_event)
    /\ IF CleanEmits(k)
       THEN /\ handlers' = Moved(h, "rescan")
            /\ UNCHANGED trackers
       ELSE /\ trackers' = [trackers EXCEPT ![restarting_kernels[k]].destroy_event = TRUE]
            /\ handlers' = Finished(h)

\* clean_kernel() returned or raised; the outer finally up to
\* await kernel_obj.close(), or all of it when the handle is missing
HandleCleanBackend(h) ==
    LET k == h.ev.kernel_id IN
    /\ h.ev.event = "CLEAN" /\ h.pc = "clean"
    /\ \E ok \in Outcomes :
          /\ containers' = BackendCleaned(h.ev.container_id, ok)
          /\ budget' = Charged(ok)
    /\ IF Has(kernel_registry, k)
       THEN /\ port_pool' = port_pool \cup RestoredPorts(kernel_registry[k])
            /\ handlers' = Moved(h, "close")
            /\ UNCHANGED <<trackers, calls>>
       ELSE /\ UNCHANGED port_pool
            /\ CleanFinish(h, calls)
    /\ UNCHANGED <<kernel_registry, alloc_map, restarting_kernels,
                   container_lifecycle_queue, resource_lock, sync_alive,
                   kernel_terminated, booted, last_registry, runner, auxVars>>

\* a faulty CLEAN that keeps the handle
NotForgotten(reg, k) == reg

\* what the CLEAN handler leaves of the registry
Forgotten(reg, k) == IF Has(reg, k) THEN Pop(reg, k) ELSE reg

\* after kernel_obj.close(): clean_event, registry.pop(), the inner finally
HandleCleanForget(h) ==
    /\ h.ev.event = "CLEAN" /\ h.pc = "close"
    /\ kernel_registry' = Forgotten(kernel_registry, h.ev.kernel_id)
    /\ CleanFinish(h, IF Has(kernel_registry, h.ev.kernel_id)
                      THEN CleanEventSet(calls, kernel_registry[h.ev.kernel_id])
                      ELSE calls)
    /\ UNCHANGED <<port_pool, alloc_map, restarting_kernels, container_lifecycle_queue,
                   resource_lock, sync_alive, envVars>>

\* no tracker: rescan_resource_usage(), then
\* produce_event('kernel_terminated', k, ev.reason)
HandleCleanTerminated(h) ==
    /\ h.ev.event = "CLEAN" /\ h.pc = "rescan"
    /\ resource_lock = ""
    /\ alloc_map' = rescan_resource_usage
    /\ kernel_terminated' =
          [kernel_terminated EXCEPT ![h.ev.kernel_id] = Append(@, h.ev.reason)]
    /\ handlers' = Finished(h)
    /\ UNCHANGED <<kernel_registry, port_pool, restarting_kernels, trackers,
                   container_lifecycle_queue, resource_lock, calls, sync_alive,
                   containers, budget, booted, last_registry, runner, auxVars>>

----------------------------------------------------------------------------
(* The environment: RPC destroy_kernel, containers that stop by            *)
(* themselves, and the backend's report of a stopped container.            *)

Requested(k) == \E c \in DOMAIN calls : calls[c].op = "create" /\ calls[c].kernel_id = k

\* the manager's destroy_kernel RPC: inject DESTROY with the manager's reason
RpcDestroyKernel(k) ==
    /\ booted /\ budget.events > 0 /\ Requested(k)
    /\ budget' = [budget EXCEPT !.events = @ - 1]
    /\ kernel_registry' = InjectedRegistry(kernel_registry, k, None)
    /\ container_lifecycle_queue' =
          Append(container_lifecycle_queue,
                 InjectedEvent(kernel_registry, k, "DESTROY", "user-requested", None, None))
    /\ UNCHANGED <<port_pool, alloc_map, restarting_kernels, trackers, resource_lock,
                   taskVars, containers, kernel_terminated, booted, last_registry, runner, auxVars>>

ContainerExit(cid) ==
    /\ booted /\ budget.events > 0
    /\ Has(containers, cid) /\ containers[cid].status \in ACTIVE_STATUS_SET
    /\ budget' = [budget EXCEPT !.events = @ - 1]
    /\ containers' = [containers EXCEPT ![cid].status = "exited"]
    /\ UNCHANGED <<agentVars, taskVars, kernel_terminated, booted, last_registry, runner, auxVars>>

\* the backend's event monitor sees a container stop and injects CLEAN
BackendDieEvent(cid) ==
    /\ booted
    /\ Has(containers, cid) /\ containers[cid].status \in DEAD_STATUS_SET
    /\ ~containers[cid].notified
    /\ containers' = [containers EXCEPT ![cid].notified = TRUE]
    /\ kernel_registry' = InjectedRegistry(kernel_registry, containers[cid].kernel_id, None)
    /\ container_lifecycle_queue' =
          Append(container_lifecycle_queue,
                 InjectedEvent(kernel_registry, containers[cid].kernel_id, "CLEAN",
                               "self-terminated", cid, None))
    /\ UNCHANGED <<port_pool, alloc_map, restarting_kernels, trackers, resource_lock,
                   taskVars, kernel_terminated, budget, booted, last_registry, runner, auxVars>>

----------------------------------------------------------------------------
(* sync_container_lifecycles: the reconciler.                              *)

\* alive_kernels[kernel_id] = container.id over the enumerated containers
AliveDicts ==
    LET cs == Enumerate(ACTIVE_STATUS_SET)
        ks == {containers[c].kernel_id : c \in cs}
    IN  {f \in [ks -> cs] : \A k \in ks : containers[f[k]].kernel_id = k}

\* takes resource_lock and awaits enumerate_containers(ACTIVE_STATUS_SET)
SyncBegin ==
    /\ booted /\ budget.events > 0
    /\ resource_lock = ""
    /\ resource_lock' = "sync"
    /\ budget' = [budget EXCEPT !.events = @ - 1]
    /\ \E alive \in AliveDicts : sync_alive' = alive
    /\ UNCHANGED <<kernel_registry, port_pool, alloc_map, restarting_kernels, trackers,
                   container_lifecycle_queue, handlers, calls, containers,
                   kernel_terminated, booted, last_registry, runner, auxVars>>

\* a faulty reconciler that skips no kernel
SyncSkipsNone(k) == FALSE

\* the kernels the reconciler leaves alone
SyncSkips(k) == Has(restarting_kernels, k)

\* a faulty reconciler that never reports a registered kernel as gone
SyncTerminatedNone(alive) == {}

SyncTerminated(alive) ==
    {k \in DOMAIN kernel_registry \ DOMAIN alive : ~SyncSkips(k)}
SyncUnknown(alive) ==
    {k \in DOMAIN alive \ DOMAIN kernel_registry : ~SyncSkips(k)}

SyncCleanEvents(o) ==
    [i \in DOMAIN o |->
        ContainerLifecycleEvent(o[i], kernel_registry[o[i]].container_id, "CLEAN",
                                "self-terminated", None)]
SyncDestroyEvents(o, alive) ==
    [i \in DOMAIN o |->
        ContainerLifecycleEvent(o[i], alive[o[i]], "DESTROY",
                                "terminated-unknown-container", None)]

\* compares with the registry, enqueues, releases the lock
SyncEnd ==
    /\ resource_lock = "sync"
    /\ \E o1 \in Orders(SyncTerminated(sync_alive)), o2 \in Orders(SyncUnknown(sync_alive)) :
          container_lifecycle_queue' =
              container_lifecycle_queue \o SyncCleanEvents(o1)
                                        \o SyncDestroyEvents(o2, sync_alive)
    /\ resource_lock' = ""
    /\ sync_alive' = EmptyDict
    /\ UNCHANGED <<kernel_registry, port_pool, alloc_map, restarting_kernels, trackers,
                   handlers, calls, envVars>>

----------------------------------------------------------------------------
(* create_kernel: the creation pipeline, run by an RPC create_kernel call  *)
(* and, with restarting=True, by restart_kernel.  The stages that touch no *)
(* state of the agent (publishing, image check, scratch, network, mounts,  *)
(* persisting) are joined to the step before or after them.                *)

Call(op, k, pc, tracker) ==
    [op |-> op, kernel_id |-> k, pc |-> pc, tracker |-> tracker, reserved |-> NoAlloc,
     host_ports |-> {}, published |-> <<>>, result |-> ""]

Restarting(c) == calls[c].op = "restart"
NextCall == Cardinality(DOMAIN calls) + 1

\* a faulty create_kernel that publishes kernel_creating before the image check
CreatingBeforePull(restarting, do_pull) ==
    (IF restarting THEN <<>> ELSE <<"kernel_preparing", "kernel_creating">>)
    \o (IF do_pull THEN <<"kernel_pulling">> ELSE <<>>)

\* kernel_preparing, check_image / pull_image, kernel_creating
Announced(restarting, do_pull) ==
    (IF restarting THEN <<>> ELSE <<"kernel_preparing">>)
    \o (IF do_pull THEN <<"kernel_pulling">> ELSE <<>>)
    \o (IF restarting THEN <<>> ELSE <<"kernel_creating">>)

\* check_image() says whether the image has to be pulled
PullChoices == IF budget.pull > 0 THEN {TRUE, FALSE} ELSE {FALSE}

Creating == {c \in DOMAIN calls : calls[c].op = "create"
                                    /\ calls[c].pc \in {"alloc", "spawn", "register"}}

\* the manager creates each kernel-id once, lowest id first; the call
\* publishes its events and reaches the slot allocation
CreateKernelCall(k, limit) ==
    /\ booted
    /\ ~Requested(k) /\ \A j \in 1..(k - 1) : Requested(j)
    /\ Cardinality(Creating) < limit
    /\ \E do_pull \in PullChoices :
          /\ calls' = Put(calls, NextCall,
                          [Call("create", k, "alloc", None) EXCEPT
                              !.published = Announced(FALSE, do_pull)])
          /\ budget' = IF do_pull THEN [budget EXCEPT !.pull = @ - 1] ELSE budget
    /\ UNCHANGED <<agentVars, handlers, sync_alive, containers, kernel_terminated,
                   booted, last_registry, runner, auxVars>>

RpcCreateKernel(k) == CreateKernelCall(k, MaxCreating)

\* alloc_map.allocate(device_specific_slots) of one device
CanAllocate(am, d) == am[d] + SlotRequest[d] <= Capacity[d]

\* the loop over dev_names in iteration order "order", from position i on:
\* it stops at the first InsufficientResource and keeps what it allocated
RECURSIVE AllocateSlots(_, _, _, _)
AllocateSlots(order, i, am, reserved) ==
    IF i > Len(order) THEN [alloc_map |-> am, reserved |-> reserved, ok |-> TRUE]
    ELSE IF ~CanAllocate(am, order[i])
         THEN [alloc_map |-> am, reserved |-> reserved, ok |-> FALSE]
         ELSE AllocateSlots(order, i + 1,
                            [am EXCEPT ![order[i]] = @ + SlotRequest[order[i]]],
                            [reserved EXCEPT ![order[i]] = SlotRequest[order[i]]])

DevNames == {d \in Devices : SlotRequest[d] > 0}

\* slot allocation under resource_lock (no await inside), then the stages
\* up to the spawn: any of them may raise, and nothing catches it
CreateAllocate(c) ==
    /\ Has(calls, c) /\ calls[c].pc = "alloc"
    /\ resource_lock = ""
    /\ \E order \in Orders(DevNames), ok \in Outcomes :
          LET r == AllocateSlots(order, 1, alloc_map, NoAlloc) IN
          /\ r.ok \/ ok
          /\ alloc_map' = r.alloc_map
          /\ budget' = IF r.ok THEN Charged(ok) ELSE budget
          /\ calls' = [calls EXCEPT
                ![c].reserved = r.reserved,
                ![c].pc = IF r.ok /\ ok THEN "spawn" ELSE "create_failed",
                ![c].result = IF ~r.ok THEN "InsufficientResource"
                              ELSE IF ok THEN "" ELSE "error"]
    /\ UNCHANGED <<kernel_registry, port_pool, restarting_kernels, trackers,
                   container_lifecycle_queue, resource_lock, handlers, sync_alive,
                   containers, kernel_terminated, booted, last_registry, runner, auxVars>>

\* the allocations a failed spawn gives back
Released(am, reserved) ==
    [d \in Devices |-> IF am[d] >= reserved[d] THEN am[d] - reserved[d] ELSE 0]

\* the host ports a spawn takes from the pool
SpawnPorts == {ports \in SUBSET port_pool :
                  /\ Cardinality(ports) = PortsPerKernel
                  /\ \A p \in ports, q \in port_pool \ ports : p < q}

\* create_kernel__spawn of the backend: host ports are taken from the pool
\* (under resource_lock) and the container starts; or the spawn fails and
\* gives back what the call had reserved
CreateSpawn(c) ==
    /\ Has(calls, c) /\ calls[c].pc = "spawn"
    /\ resource_lock = ""
    /\ \/ \E ports \in SpawnPorts :
            /\ port_pool' = port_pool \ ports
            /\ containers' = Put(containers, SpawnedId(c),
                                 Container(calls[c].kernel_id, ports, "running", TRUE, FALSE))
            /\ calls' = [calls EXCEPT ![c].pc = "register", ![c].host_ports = ports]
            /\ UNCHANGED <<alloc_map, budget>>
       \/ /\ budget.events > 0 \/ SpawnPorts = {}
          /\ budget' = IF SpawnPorts = {} THEN budget ELSE Charged(FALSE)
          /\ alloc_map' = Released(alloc_map, calls[c].reserved)
          /\ calls' = [calls EXCEPT ![c].pc = "create_failed", ![c].result = "error",
                                    ![c].reserved = NoAlloc]
          /\ UNCHANGED <<port_pool, containers>>
    /\ UNCHANGED <<kernel_registry, restarting_kernels, trackers, container_lifecycle_queue,
                   resource_lock, handlers, sync_alive, kernel_terminated, booted,
                   last_registry, runner, auxVars>>

\* the handle that create_kernel puts into the registry
Registered(reg, k, kernel_obj) == Put(reg, k, kernel_obj)

\* spawn returns the kernel object:  self.kernel_registry[kernel_id] = kernel_obj;
\* then check_status() and get_service_apps(), which may raise
CreateRegister(c) ==
    /\ Has(calls, c) /\ calls[c].pc = "register"
    /\ kernel_registry' =
          Registered(kernel_registry, calls[c].kernel_id,
                     KernelObj(SpawnedId(c), calls[c].host_ports))
    /\ \E ok \in Outcomes :
          /\ calls' = [calls EXCEPT ![c].pc = IF ok THEN "created" ELSE "create_failed",
                                    ![c].result = IF ok THEN "ok" ELSE "error"]
          /\ budget' = Charged(ok)
    /\ UNCHANGED <<port_pool, alloc_map, restarting_kernels, trackers,
                   container_lifecycle_queue, resource_lock, handlers, sync_alive,
                   containers, kernel_terminated, booted, last_registry, runner, auxVars>>

----------------------------------------------------------------------------
(* restart_kernel: the restart coordinator.                                *)

\* restarting_kernels.get(kernel_id), or a new tracker; then the call awaits
\* restart_kernel__load_config and the tracker's request_lock
RpcRestartKernel(k) ==
    /\ booted /\ budget.events > 0 /\ Requested(k)
    /\ budget' = [budget EXCEPT !.events = @ - 1]
    /\ LET c == NextCall
           t == IF Has(restarting_kernels, k) THEN restarting_kernels[k] ELSE c IN
       /\ restarting_kernels' = Put(restarting_kernels, k, t)
       /\ trackers' = IF Has(restarting_kernels, k) THEN trackers
                      ELSE Put(trackers, t, RestartTracker)
       /\ calls' = Put(calls, c, Call("restart", k, "r_lock", t))
    /\ UNCHANGED <<kernel_registry, port_pool, alloc_map, container_lifecycle_queue,
                   resource_lock, handlers, sync_alive, containers, kernel_terminated,
                   booted, last_registry, runner, auxVars>>

\* the reason restart_kernel hands to its DESTROY
RestartReason == "restarting"

\* async with tracker.request_lock: done_event.clear(), inject DESTROY,
\* then the call awaits destroy_event
RestartLock(c) ==
    LET k == calls[c].kernel_id
        t == calls[c].tracker IN
    /\ Has(calls, c) /\ calls[c].pc = "r_lock"
    /\ trackers[t].request_lock = None
    /\ trackers' = [trackers EXCEPT ![t].request_lock = c, ![t].done_event = FALSE]
    /\ kernel_registry' = InjectedRegistry(kernel_registry, k, None)
    /\ container_lifecycle_queue' =
          Append(container_lifecycle_queue,
                 InjectedEvent(kernel_registry, k, "DESTROY", RestartReason, None, None))
    /\ calls' = [calls EXCEPT ![c].pc = "r_wait"]
    /\ UNCHANGED <<port_pool, alloc_map, restarting_kernels, resource_lock, handlers,
                   sync_alive, envVars>>

\* a faulty restart that does not wait for the CLEAN handler
RestartNeverWaits(t) == TRUE

\* what lets the call pass  await tracker.destroy_event.wait()
DestroyComplete(t) == trackers[t].destroy_event

\* destroy_event is set: create_kernel(..., restarting=True) starts; it
\* publishes no kernel_preparing / kernel_creating and allocates no slots
RestartDestroyed(c) ==
    /\ Has(calls, c) /\ calls[c].pc = "r_wait"
    /\ DestroyComplete(calls[c].tracker)
    /\ \E do_pull \in PullChoices :
          /\ calls' = [calls EXCEPT ![c].pc = "spawn",
                                    ![c].published = Announced(TRUE, do_pull)]
          /\ budget' = IF do_pull THEN [budget EXCEPT !.pull = @ - 1] ELSE budget
    /\ UNCHANGED <<agentVars, handlers, sync_alive, containers, kernel_terminated,
                   booted, last_registry, runner, auxVars>>

\* the reason restart_kernel hands to its CLEAN after the timeout
RestartTimeoutReason == "restart-timeout"

\* a faulty timeout branch that leaves the tracker registered
TimeoutKeepsTracker(rk, k) == rk

\* what the timeout branch leaves of restarting_kernels
TimedOut(rk, k) == IF Has(rk, k) THEN Pop(rk, k) ELSE rk

\* timeout(60) expires first: pop the tracker, inject CLEAN, re-raise
\* (leaving the async with releases the lock)
RestartTimeout(c) ==
    LET k == calls[c].kernel_id
        t == calls[c].tracker IN
    /\ Has(calls, c) /\ calls[c].pc = "r_wait"
    /\ ~DestroyComplete(t)
    /\ restarting_kernels' = TimedOut(restarting_kernels, k)
    /\ kernel_registry' = InjectedRegistry(kernel_registry, k, None)
    /\ container_lifecycle_queue' =
          Append(container_lifecycle_queue,
                 InjectedEvent(kernel_registry, k, "CLEAN", RestartTimeoutReason, None, None))
    /\ trackers' = [trackers EXCEPT ![t].request_lock = None]
    /\ calls' = [calls EXCEPT ![c].pc = "r_timeout", ![c].result = "TimeoutError"]
    /\ UNCHANGED <<port_pool, alloc_map, resource_lock, handlers, sync_alive, envVars>>

\* done_event.set() wakes every execute call that waits on tracker t: a
\* woken waiter goes on even if the event is cleared again before it runs
Woken(call, t) ==
    IF call.op = "execute" /\ call.pc = "x_wait" /\ call.tracker = t
    THEN [call EXCEPT !.pc = "x_woken"]
    ELSE IF call.op = "batch" /\ call.pc = "b_wait" /\ call.tracker = t
         THEN [call EXCEPT !.pc = "b_woken"] ELSE call

\* create_kernel returned (pop the tracker) or raised (logged, swallowed);
\* done_event.set(), the lock is released, the handle is looked up
RestartFinish(c) ==
    LET k == calls[c].kernel_id
        t == calls[c].tracker IN
    /\ Has(calls, c) /\ Restarting(c)
    /\ calls[c].pc \in {"created", "create_failed"}
    /\ restarting_kernels' =
          IF calls[c].pc = "created" /\ Has(restarting_kernels, k)
          THEN Pop(restarting_kernels, k) ELSE restarting_kernels
    /\ trackers' = [trackers EXCEPT ![t].done_event = TRUE, ![t].request_lock = None]
    /\ calls' = [x \in DOMAIN calls |->
                    IF x = c
                    THEN [calls[c] EXCEPT !.pc = "r_done",
                                          !.result = IF Has(kernel_registry, k) THEN "ok"
                                                     ELSE "KeyError"]
                    ELSE Woken(calls[x], t)]
    /\ UNCHANGED <<kernel_registry, port_pool, alloc_map, container_lifecycle_queue,
                   resource_lock, handlers, sync_alive, envVars>>

----------------------------------------------------------------------------
(* The running agent: a fresh node after __ainit__.                        *)

Budget ==
    [events |-> MaxEvents, pull |-> MaxPulls]

Init ==
    /\ kernel_registry = EmptyDict
    /\ port_pool = PortRange
    /\ alloc_map = NoAlloc
    /\ restarting_kernels = EmptyDict
    /\ trackers = EmptyDict
    /\ container_lifecycle_queue = <<>>
    /\ resource_lock = ""
    /\ containers = EmptyDict
    /\ handlers = EmptyBag
    /\ calls = EmptyDict
    /\ sync_alive = EmptyDict
    /\ kernel_terminated = [k \in KernelIds |-> <<>>]
    /\ budget = Budget
    /\ booted = TRUE
    /\ last_registry = NoFile
    /\ runner = NoRunner
    /\ log_shipper = NoLogs
    /\ krunner_match = NoMatch
    /\ console = NoConsole
    /\ lifecycle_handler = "running"

Next ==
    \/ DispatchDestroy
    \/ \E h \in InFlight : HandleDestroyMissing(h)
    \/ \E h \in InFlight : HandleDestroyBackend(h)
    \/ DispatchClean
    \/ \E h \in InFlight : HandleCleanBackend(h)
    \/ \E h \in InFlight : HandleCleanForget(h)
    \/ \E h \in InFlight : HandleCleanTerminated(h)
    \/ \E k \in KernelIds : RpcDestroyKernel(k)
    \/ \E cid \in DOMAIN containers : ContainerExit(cid)
    \/ \E cid \in DOMAIN containers : BackendDieEvent(cid)
    \/ SyncBegin
    \/ SyncEnd
    \/ \E k \in KernelIds : RpcCreateKernel(k)
    \/ \E c \in DOMAIN calls : CreateAllocate(c)
    \/ \E c \in DOMAIN calls : CreateSpawn(c)
    \/ \E c \in DOMAIN calls : CreateRegister(c)
    \/ \E k \in KernelIds : RpcRestartKernel(k)
    \/ \E c \in DOMAIN calls : RestartLock(c)
    \/ \E c \in DOMAIN calls : RestartDestroyed(c)
    \/ \E c \in DOMAIN calls : RestartTimeout(c)
    \/ \E c \in DOMAIN calls : RestartFinish(c)

Spec == Init /\ [][Next]_vars

----------------------------------------------------------------------------
(* The agent's start: __ainit__ runs scan_running_kernels before the       *)
(* consumer and the timers exist, over the containers and the registry     *)
(* file that the previous agent process left behind.                       *)

\* the host ports a container of kernel k may have got from the last process
BootPorts(k) == {{p} : p \in (PortRange \cap {k}) \cup {OutOfRangePort}}

\* the statuses the containers are found in
BootStatuses == {"running", "exited"}

\* what the last process left on the node: per kernel no container, or one
\* that runs, or one that stopped while no agent was listening
BootContainers ==
    UNION {{cs \in [{BootId(k) : k \in ks} ->
                      {Container(k, ports, status, ok, status \in DEAD_STATUS_SET) :
                          k \in ks, ports \in {{p} : p \in 1..OutOfRangePort},
                          status \in BootStatuses,
                          ok \in BOOLEAN}] :
               \A k \in ks :
                   /\ cs[BootId(k)].kernel_id = k
                   /\ cs[BootId(k)].host_ports \in BootPorts(k)} :
           ks \in SUBSET KernelIds}

\* the registry file of the last process, written when it shut down: a
\* handle of a kernel holds the ports of that kernel's container
BootRegistries(cs) ==
    {NoFile} \cup
    UNION {{File(reg) : reg \in {reg \in [ks -> {KernelObj(BootId(k), ports) :
                               k \in KernelIds, ports \in {{p} : p \in 1..OutOfRangePort}}] :
               \A k \in ks :
                   /\ reg[k].container_id = BootId(k)
                   /\ reg[k].host_ports \in BootPorts(k)
                   /\ Has(cs, BootId(k)) => reg[k].host_ports = cs[BootId(k)].host_ports}} :
           ks \in SUBSET KernelIds}

InitBoot ==
    /\ kernel_registry = EmptyDict
    /\ port_pool = PortRange
    /\ alloc_map = NoAlloc
    /\ restarting_kernels = EmptyDict
    /\ trackers = EmptyDict
    /\ container_lifecycle_queue = <<>>
    /\ resource_lock = ""
    /\ containers \in BootContainers
    /\ last_registry \in BootRegistries(containers)
    /\ runner = NoRunner
    /\ log_shipper = NoLogs
    /\ krunner_match = NoMatch
    /\ console = NoConsole
    /\ lifecycle_handler = "running"
    /\ handlers = EmptyBag
    /\ calls = EmptyDict
    /\ sync_alive = EmptyDict
    /\ kernel_terminated = [k \in KernelIds |-> <<>>]
    /\ budget = Budget
    /\ booted = FALSE

\* pickle.load of the registry file, or the empty registry
Loaded(file) == IF file.exists THEN file.registry ELSE EmptyDict

\* the active containers the scan takes over
Resumed == {c \in Enumerate(ACTIVE_STATUS_SET) : containers[c].kernelspec_ok}

\* "Consume the port pool": the host ports of the resumed containers
Consumed == UNION {containers[c].host_ports : c \in Resumed}

\* the events the scan injects, in the order "o" of the enumeration
ScanEvents(reg, o) ==
    LET ev(c) ==
          IF containers[c].status \in ACTIVE_STATUS_SET
          THEN InjectedEvent(reg, containers[c].kernel_id, "START",
                             "resuming-agent-operation", c, None)
          ELSE InjectedEvent(reg, containers[c].kernel_id, "CLEAN",
                             "self-terminated", c, None)
    IN  [i \in DOMAIN o |-> ev(o[i])]

scan_running_kernels ==
    /\ ~booted
    /\ booted' = TRUE
    /\ kernel_registry' = Loaded(last_registry)
    /\ port_pool' = port_pool \ Consumed
    /\ alloc_map' = RestoredAlloc(Resumed)
    /\ \E o \in Orders(Resumed \cup Enumerate(DEAD_STATUS_SET)) :
          container_lifecycle_queue' = ScanEvents(Loaded(last_registry), o)
    /\ UNCHANGED <<restarting_kernels, trackers, resource_lock, taskVars, containers,
                   kernel_terminated, budget, last_registry, runner, auxVars>>

NextBoot ==
    \/ scan_running_kernels
    \/ DispatchStart
    \/ DispatchDestroy
    \/ \E h \in InFlight : HandleDestroyBackend(h)
    \/ DispatchClean
    \/ \E h \in InFlight : HandleCleanBackend(h)
    \/ \E h \in InFlight : HandleCleanForget(h)
    \/ \E h \in InFlight : HandleCleanTerminated(h)
    \/ \E cid \in DOMAIN containers : ContainerExit(cid)
    \/ \E cid \in DOMAIN containers : BackendDieEvent(cid)
    \/ SyncBegin
    \/ SyncEnd

SpecBoot == InitBoot /\ [][NextBoot]_vars

----------------------------------------------------------------------------
(* Properties.                                                             *)

HandlesOf(c) == {k \in DOMAIN kernel_registry : kernel_registry[k].container_id = c}
LiveContainers == Enumerate(ACTIVE_STATUS_SET)
InPipeline == {c \in DOMAIN calls : calls[c].pc \in {"alloc", "spawn", "register"}}
\* nothing is queued, no handler and no creation is in flight, no lock held
Quiescent ==
    /\ booted
    /\ container_lifecycle_queue = <<>>
    /\ handlers = EmptyBag
    /\ InPipeline = {}
    /\ resource_lock = ""
\* handler h ends in this step
Ends(h) == BagIn(h, handlers) /\ handlers' = Finished(h)
\* handler h goes on to pc in this step
GoesOn(h, pc) == BagIn(h, handlers) /\ handlers' = Moved(h, pc)
CleanHandlers == {h \in InFlight : h.ev.event = "CLEAN"}
\* the kernels that are live: registered, their container running
LiveKernels ==
    {k \in DOMAIN kernel_registry :
        /\ Has(containers, kernel_registry[k].container_id)
        /\ containers[kernel_registry[k].container_id].status \in ACTIVE_STATUS_SET}
LiveAlloc == [d \in Devices |-> Cardinality(LiveKernels) * SlotRequest[d]]

HeldPorts(k) == kernel_registry[k].host_ports \cap PortRange
HeldCount == SumOver(DOMAIN kernel_registry,
                     [k \in DOMAIN kernel_registry |-> Cardinality(HeldPorts(k))])

\* the registry and the backend agree: every handle has its running
\* container and every running container has its handle
Reconciled ==
    /\ \A k \in DOMAIN kernel_registry : k \in LiveKernels
    /\ \A c \in LiveContainers : Cardinality(HandlesOf(c)) = 1

\* C2: the free port pool and the in-range host ports of the handles are
\* disjoint and together make up the configured range,
\* |port_pool| + sum |handle.host_ports \cap range| = |range|; stated for
\* the started agent at rest (nothing queued, nothing in flight) with its
\* registry reconciled with the backend.
C2_PortPartition ==
    (Quiescent /\ Reconciled) =>
        /\ \A k \in DOMAIN kernel_registry : HeldPorts(k) \cap port_pool = {}
        /\ Cardinality(port_pool) + HeldCount = Cardinality(PortRange)

\* handlers in flight for kernel k and event kind
HandlersFor(k, kind) ==
    LET hs == {h \in InFlight : h.ev.kernel_id = k /\ h.ev.event = kind}
    IN  SumOver(hs, [h \in hs |-> CopiesIn(h, handlers)])

\* C3: for every kernel-id and every event kind at most one handler for
\* that pair is in flight at any time.
C3_OneHandlerPerKind ==
    \A k \in KernelIds, kind \in {"START", "DESTROY", "CLEAN"} : HandlersFor(k, kind) <= 1

\* C4: once a handle's termination-reason has been set, no later step
\* changes it to a different reason.
C4_ReasonKept ==
    [][ \A k \in DOMAIN kernel_registry \cap DOMAIN kernel_registry' :
           ( /\ kernel_registry[k].termination_reason # NoReason
             /\ kernel_registry'[k].container_id = kernel_registry[k].container_id )
           => kernel_registry'[k].termination_reason
                  = kernel_registry[k].termination_reason ]_vars

\* C5: when the slot allocation of a create_kernel call fails with
\* InsufficientResource, the allocation maps equal their value from before
\* the call.
C5_InsufficientRollsBack ==
    [][ \A c \in DOMAIN calls :
           ( /\ calls[c].pc = "alloc"
             /\ calls'[c].result = "InsufficientResource" )
           => alloc_map' = alloc_map ]_vars

\* C6: when a create_kernel call fails at a stage after the slot allocation
\* and before the spawn has succeeded, the slots that call reserved are
\* released: the allocation maps are as they were before its allocation, or,
\* for a failed spawn, lower by what the call had reserved.
C6_FailureReleases ==
    [][ \A c \in DOMAIN calls :
           /\ ( /\ calls[c].pc = "alloc"
                /\ calls'[c].pc = "create_failed" /\ calls'[c].result = "error" )
              => alloc_map' = alloc_map
           /\ ( /\ calls[c].pc = "spawn"
                /\ calls'[c].pc = "create_failed" )
              => alloc_map' = Released(alloc_map, calls[c].reserved) ]_vars

\* C7: after a reconcile pass completes (here: one that found nothing to
\* enqueue, with nothing else queued or in flight), each device's allocation
\* map equals the sum of the allocations of the live kernels.
C7_ReconciledAlloc ==
    [][ ( /\ resource_lock = "sync" /\ resource_lock' = ""
          /\ Quiescent' )
        => alloc_map' = LiveAlloc' ]_vars

\* a CLEAN handler for kernel k publishes kernel_terminated in this step
CleanPublishes(k) ==
    \E h \in CleanHandlers :
        /\ h.ev.kernel_id = k /\ h.pc = "rescan" /\ Ends(h)
        /\ kernel_terminated'[k] # kernel_terminated[k]

\* C8 as stated: while a restart tracker exists for a kernel, the CLEAN
\* handler emits no kernel_terminated for that kernel.
C8_NoTerminatedWhileTracked ==
    [][ \A k \in KernelIds : Has(restarting_kernels, k) => ~CleanPublishes(k) ]_vars

\* C8, amended: the CLEAN handler chooses once, when it reaches its final
\* block: if a restart tracker is registered for the kernel at that moment
\* it sets the tracker's destroy-complete, publishes nothing and ends;
\* otherwise it goes on to rescan the resources and publish
\* kernel_terminated with the event's reason, even if a tracker has been
\* registered in between.
C8_CleanBranch ==
    [][ \A h \in CleanHandlers :
           LET k == h.ev.kernel_id IN
           /\ (h.pc \in {"clean", "close"} /\ Ends(h)) =>
                 /\ Has(restarting_kernels, k)
                 /\ trackers'[restarting_kernels[k]].destroy_event
                 /\ kernel_terminated' = kernel_terminated
           /\ (h.pc \in {"clean", "close"} /\ GoesOn(h, "rescan")) =>
                 /\ ~Has(restarting_kernels, k)
                 /\ trackers' = trackers
                 /\ kernel_terminated' = kernel_terminated
           /\ (h.pc = "rescan" /\ Ends(h)) =>
                 /\ alloc_map' = rescan_resource_usage
                 /\ kernel_terminated'[k] = Append(kernel_terminated[k], h.ev.reason) ]_vars

\* C8 witness: a CLEAN handler has set destroy-complete for a waiting
\* restart, and nothing was published for that kernel
C8_DestroyMarked ==
    \E c \in DOMAIN calls :
        /\ Restarting(c) /\ calls[c].pc = "r_wait"
        /\ trackers[calls[c].tracker].destroy_event
        /\ Has(restarting_kernels, calls[c].kernel_id)
        /\ kernel_terminated[calls[c].kernel_id] = <<>>

\* the restart calls that are inside create_kernel(restarting=True)
Recreating == {c \in DOMAIN calls :
                  Restarting(c) /\ calls[c].pc \in {"spawn", "register", "created",
                                                    "create_failed"}}

TimesOut(c) == calls[c].pc = "r_wait" /\ calls'[c].pc = "r_timeout"

\* C10 as stated: on the timeout restart_kernel removes the tracker,
\* enqueues CLEAN with reason 'restart-timeout' for the kernel, runs no
\* creation and surfaces a timeout error.
C10_TimeoutCleanReason ==
    [][ \A c \in DOMAIN calls : TimesOut(c) =>
           LET ev == container_lifecycle_queue'[Len(container_lifecycle_queue')] IN
           /\ ~Has(restarting_kernels', calls[c].kernel_id)
           /\ Len(container_lifecycle_queue') = Len(container_lifecycle_queue) + 1
           /\ ev.event = "CLEAN" /\ ev.kernel_id = calls[c].kernel_id
           /\ ev.reason = "restart-timeout"
           /\ calls'[c].result = "TimeoutError" ]_vars

\* C10, amended: on the timeout restart_kernel removes the tracker, enqueues
\* CLEAN for the kernel, runs no creation and surfaces a timeout error; the
\* CLEAN carries 'restart-timeout' only if the kernel has no handle or its
\* handle has no termination-reason, otherwise the recorded reason.
C10_Timeout ==
    [][ \A c \in DOMAIN calls :
           /\ TimesOut(c) =>
                 LET k == calls[c].kernel_id
                     ev == container_lifecycle_queue'[Len(container_lifecycle_queue')] IN
                 /\ ~Has(restarting_kernels', k)
                 /\ Len(container_lifecycle_queue') = Len(container_lifecycle_queue) + 1
                 /\ ev.event = "CLEAN" /\ ev.kernel_id = k
                 /\ ev.reason = IF Has(kernel_registry, k)
                                   /\ kernel_registry[k].termination_reason # NoReason
                                THEN kernel_registry[k].termination_reason
                                ELSE "restart-timeout"
                 /\ calls'[c].result = "TimeoutError"
                 /\ calls'[c].published = <<>> /\ calls'[c].host_ports = {}
                 /\ alloc_map' = alloc_map /\ containers' = containers
           /\ calls[c].pc = "r_timeout" => calls'[c] = calls[c] ]_vars

\* C10 witness: a restart has timed out after its DESTROY was handled, and
\* its CLEAN sits in the queue with the reason the DESTROY recorded
C10_TimedOut ==
    \E c \in DOMAIN calls :
        /\ calls[c].pc = "r_timeout" /\ calls[c].result = "TimeoutError"
        /\ ~Has(restarting_kernels, calls[c].kernel_id)
        /\ \E i \in DOMAIN container_lifecycle_queue :
              /\ container_lifecycle_queue[i].event = "CLEAN"
              /\ container_lifecycle_queue[i].kernel_id = calls[c].kernel_id
              /\ container_lifecycle_queue[i].reason = "restarting"
----------------------------------------------------------------------------
(* execute: the RPC that runs code in a kernel.                            *)

\* execute RPC calls the manager makes
MaxExecutes == 1

Executes == {c \in DOMAIN calls : calls[c].op = "execute"}

\* a faulty execute that never waits for a restart
ExecuteNeverWaits(k) == FALSE

\* "Wait for the kernel restarting if it's ongoing": the call is suspended
\* when a tracker is registered and its done_event is not set
ExecuteWaits(k) ==
    /\ Has(restarting_kernels, k)
    /\ ~trackers[restarting_kernels[k]].done_event

\* kernel_obj = self.kernel_registry[kernel_id]; await kernel_obj.execute(...)
\* or, on KeyError, RuntimeError
Looked(call) ==
    IF Has(kernel_registry, call.kernel_id)
    THEN [call EXCEPT !.pc = "x_run"]
    ELSE [call EXCEPT !.pc = "x_done", !.result = "RuntimeError"]

\* the call up to its first await
RpcExecute(k) ==
    /\ booted /\ Requested(k)
    /\ Cardinality(Executes) < MaxExecutes
    /\ calls' = Put(calls, NextCall,
                    IF ExecuteWaits(k)
                    THEN Call("execute", k, "x_wait", restarting_kernels[k])
                    ELSE Looked(Call("execute", k, "x_new", None)))
    /\ UNCHANGED <<agentVars, handlers, sync_alive, envVars>>

\* the call resumes after done_event.wait()
ExecuteResume(c) ==
    /\ Has(calls, c) /\ calls[c].op = "execute" /\ calls[c].pc = "x_woken"
    /\ calls' = [calls EXCEPT ![c] = Looked(calls[c])]
    /\ UNCHANGED <<agentVars, handlers, sync_alive, envVars>>

\* the statuses kernel_obj.execute() may return; an exec-timeout is one of
\* the things the environment does
ExecuteStatuses ==
    {"finished", "continued"} \cup (IF budget.events > 0 THEN {"exec-timeout"} ELSE {})

\* kernel_obj.execute() returns; on exec-timeout DESTROY is injected
ExecuteReturn(c) ==
    LET k == calls[c].kernel_id IN
    /\ Has(calls, c) /\ calls[c].op = "execute" /\ calls[c].pc = "x_run"
    /\ \E status \in ExecuteStatuses :
          /\ calls' = [calls EXCEPT ![c].pc = "x_done", ![c].result = status]
          /\ IF status = "exec-timeout"
             THEN /\ budget' = [budget EXCEPT !.events = @ - 1]
                  /\ kernel_registry' = InjectedRegistry(kernel_registry, k, None)
                  /\ container_lifecycle_queue' =
                        Append(container_lifecycle_queue,
                               InjectedEvent(kernel_registry, k, "DESTROY", "exec-timeout",
                                             None, None))
             ELSE UNCHANGED <<budget, kernel_registry, container_lifecycle_queue>>
    /\ UNCHANGED <<port_pool, alloc_map, restarting_kernels, trackers, resource_lock,
                   handlers, sync_alive, containers, kernel_terminated, booted,
                   last_registry, runner, auxVars>>

\* the kernel-ids the manager uses while it runs code
ExecKernels == {k \in KernelIds : k <= MaxExecutes}

\* the running agent with one kernel that is destroyed, restarted,
\* reconciled and executed in
NextExec ==
    \/ DispatchDestroy
    \/ \E h \in InFlight : HandleDestroyMissing(h)
    \/ \E h \in InFlight : HandleDestroyBackend(h)
    \/ DispatchClean
    \/ \E h \in InFlight : HandleCleanBackend(h)
    \/ \E h \in InFlight : HandleCleanForget(h)
    \/ \E h \in InFlight : HandleCleanTerminated(h)
    \/ \E cid \in DOMAIN containers : ContainerExit(cid)
    \/ \E cid \in DOMAIN containers : BackendDieEvent(cid)
    \/ SyncBegin
    \/ SyncEnd
    \/ \E k \in ExecKernels : RpcCreateKernel(k)
    \/ \E c \in DOMAIN calls : CreateAllocate(c)
    \/ \E c \in DOMAIN calls : CreateSpawn(c)
    \/ \E c \in DOMAIN calls : CreateRegister(c)
    \/ \E k \in ExecKernels : RpcRestartKernel(k)
    \/ \E c \in DOMAIN calls : RestartLock(c)
    \/ \E c \in DOMAIN calls : RestartDestroyed(c)
    \/ \E c \in DOMAIN calls : RestartTimeout(c)
    \/ \E c \in DOMAIN calls : RestartFinish(c)
    \/ \E k \in ExecKernels : RpcExecute(k)
    \/ \E c \in DOMAIN calls : ExecuteResume(c)
    \/ \E c \in DOMAIN calls : ExecuteReturn(c)

SpecExec == Init /\ [][NextExec]_vars

----------------------------------------------------------------------------
(* Properties of the restart tracker as seen by the reconciler and execute. *)

\* the events a step appends to the lifecycle queue
Enqueued ==
    IF Len(container_lifecycle_queue') > Len(container_lifecycle_queue)
    THEN {container_lifecycle_queue'[i] :
             i \in (Len(container_lifecycle_queue) + 1)..Len(container_lifecycle_queue')}
    ELSE {}

\* a reconciler pass ends in this step
SyncEnds == resource_lock = "sync" /\ resource_lock' = ""

\* execute call c reaches kernel_obj.execute() in this step
ReachesRunner(c) ==
    /\ c \in DOMAIN calls' /\ calls'[c].op = "execute" /\ calls'[c].pc = "x_run"
    /\ (c \in DOMAIN calls => calls[c].pc # "x_run")

\* C11: while a restart tracker is registered for a kernel, a reconciler
\* pass enqueues no event for that kernel; and an execute call that finds a
\* tracker registered reaches the kernel's runner only if the tracker's done
\* is set when it arrives or is set while it waits (a waiting call is
\* released only by the step that sets done).
C11_TrackerShields ==
    [][ /\ SyncEnds =>
              \A ev \in Enqueued : ~Has(restarting_kernels, ev.kernel_id)
        /\ \A c \in DOMAIN calls' :
              /\ (ReachesRunner(c) /\ c \notin DOMAIN calls) =>
                    ( Has(restarting_kernels, calls'[c].kernel_id) =>
                         trackers[restarting_kernels[calls'[c].kernel_id]].done_event )
              /\ (ReachesRunner(c) /\ c \in DOMAIN calls) => calls[c].pc = "x_woken"
              /\ ( /\ c \in DOMAIN calls /\ calls[c].pc = "x_wait"
                   /\ calls'[c].pc # "x_wait" ) =>
                    /\ calls'[c].pc = "x_woken"
                    /\ ~trackers[calls[c].tracker].done_event
                    /\ trackers'[calls[c].tracker].done_event ]_vars

\* C11 witness: an execute call that waited for a restart has reached the
\* runner after the restart ended
C11_ExecutedAfterRestart ==
    \E c \in Executes :
        /\ calls[c].pc = "x_run" /\ calls[c].tracker # None
        /\ trackers[calls[c].tracker].done_event
        /\ \E r \in DOMAIN calls : Restarting(r) /\ calls[r].pc = "r_done"

----------------------------------------------------------------------------
(* Concurrent restart_kernel calls on one kernel.                          *)

\* restart_kernel RPC calls the manager makes
MaxRestarts == 3

InitRestart ==
    /\ kernel_registry = EmptyDict
    /\ port_pool = PortRange
    /\ alloc_map = NoAlloc
    /\ restarting_kernels = EmptyDict
    /\ trackers = EmptyDict
    /\ container_lifecycle_queue = <<>>
    /\ resource_lock = ""
    /\ containers = EmptyDict
    /\ handlers = EmptyBag
    /\ calls = EmptyDict
    /\ sync_alive = EmptyDict
    /\ kernel_terminated = [k \in KernelIds |-> <<>>]
    /\ budget = [events |-> MaxRestarts, pull |-> MaxPulls]
    /\ booted = TRUE
    /\ last_registry = NoFile
    /\ runner = NoRunner
    /\ log_shipper = NoLogs
    /\ krunner_match = NoMatch
    /\ console = NoConsole
    /\ lifecycle_handler = "running"

\* one kernel, created once and restarted by concurrent calls
NextRestart ==
    \/ DispatchDestroy
    \/ \E h \in InFlight : HandleDestroyMissing(h)
    \/ \E h \in InFlight : HandleDestroyBackend(h)
    \/ DispatchClean
    \/ \E h \in InFlight : HandleCleanBackend(h)
    \/ \E h \in InFlight : HandleCleanForget(h)
    \/ \E h \in InFlight : HandleCleanTerminated(h)
    \/ RpcCreateKernel(1)
    \/ \E c \in DOMAIN calls : CreateAllocate(c)
    \/ \E c \in DOMAIN calls : CreateSpawn(c)
    \/ \E c \in DOMAIN calls : CreateRegister(c)
    \/ RpcRestartKernel(1)
    \/ \E c \in DOMAIN calls : RestartLock(c)
    \/ \E c \in DOMAIN calls : RestartDestroyed(c)
    \/ \E c \in DOMAIN calls : RestartTimeout(c)
    \/ \E c \in DOMAIN calls : RestartFinish(c)

SpecRestart == InitRestart /\ [][NextRestart]_vars

\* restart calls inside  async with tracker.request_lock  (the
\* destroy-wait-recreate section) for kernel k
InSection(k) ==
    {c \in DOMAIN calls : /\ Restarting(c) /\ calls[c].kernel_id = k
                          /\ trackers[calls[c].tracker].request_lock = c}

\* the trackers that restart calls in progress for kernel k work with
TrackersInUse(k) ==
    {calls[c].tracker : c \in {x \in DOMAIN calls :
                                  /\ Restarting(x) /\ calls[x].kernel_id = k
                                  /\ calls[x].pc \notin {"r_done", "r_timeout"}}}

\* C12: restart calls on one kernel are serialized: the calls in progress
\* share one tracker and at most one of them is inside its
\* destroy-wait-recreate section.
C12_RestartsSerialized ==
    \A k \in KernelIds :
        /\ Cardinality(TrackersInUse(k)) <= 1
        /\ Cardinality(InSection(k)) <= 1

----------------------------------------------------------------------------
(* Properties of the reconciler (sync_container_lifecycles).               *)

\* a reconciler pass starts in this step: it takes the lock and enumerates
SyncBegins == resource_lock = "" /\ resource_lock' = "sync"

\* the positions of the events a step appends for kernel k
EnqueuedFor(k) ==
    {i \in (Len(container_lifecycle_queue) + 1)..Len(container_lifecycle_queue') :
        container_lifecycle_queue'[i].kernel_id = k}

\* C13: a reconciler pass takes as alive the kernel-ids of the backend's
\* active containers; it appends exactly one CLEAN 'self-terminated' (with
\* the handle's container-id) for every registry kernel that is not alive,
\* exactly one DESTROY 'terminated-unknown-container' (with the alive
\* container's id) for every alive kernel-id that is not in the registry,
\* nothing for a kernel being restarted and nothing else; the pass leaves
\* the registry and the events already queued as they were.
C13_SyncEnqueuesExactly ==
    [][ /\ SyncBegins =>
              /\ DOMAIN sync_alive' =
                    {containers[c].kernel_id : c \in Enumerate(ACTIVE_STATUS_SET)}
              /\ \A k \in DOMAIN sync_alive' :
                    /\ sync_alive'[k] \in Enumerate(ACTIVE_STATUS_SET)
                    /\ containers[sync_alive'[k]].kernel_id = k
              /\ kernel_registry' = kernel_registry
              /\ container_lifecycle_queue' = container_lifecycle_queue
        /\ SyncEnds =>
              /\ kernel_registry' = kernel_registry
              /\ Len(container_lifecycle_queue') >= Len(container_lifecycle_queue)
              /\ SubSeq(container_lifecycle_queue', 1, Len(container_lifecycle_queue))
                    = container_lifecycle_queue
              /\ \A ev \in Enqueued : ev.kernel_id \in KernelIds
              /\ \A k \in KernelIds :
                    IF Has(restarting_kernels, k) THEN EnqueuedFor(k) = {}
                    ELSE IF Has(kernel_registry, k) /\ ~Has(sync_alive, k)
                    THEN /\ Cardinality(EnqueuedFor(k)) = 1
                         /\ \A i \in EnqueuedFor(k) :
                               container_lifecycle_queue'[i] =
                                  [kernel_id |-> k,
                                   container_id |-> kernel_registry[k].container_id,
                                   event |-> "CLEAN", reason |-> "self-terminated",
                                   done_event |-> None]
                    ELSE IF Has(sync_alive, k) /\ ~Has(kernel_registry, k)
                    THEN /\ Cardinality(EnqueuedFor(k)) = 1
                         /\ \A i \in EnqueuedFor(k) :
                               container_lifecycle_queue'[i] =
                                  [kernel_id |-> k, container_id |-> sync_alive[k],
                                   event |-> "DESTROY",
                                   reason |-> "terminated-unknown-container",
                                   done_event |-> None]
                    ELSE EnqueuedFor(k) = {} ]_vars

\* C13 witness: a pass has queued CLEAN 'self-terminated' for a registered
\* kernel whose container stopped without the event monitor noticing
C13_StoppedKernelQueued ==
    /\ resource_lock = ""
    /\ \E i \in DOMAIN container_lifecycle_queue :
          LET ev == container_lifecycle_queue[i] IN
          /\ ev.event = "CLEAN" /\ ev.reason = "self-terminated"
          /\ Has(kernel_registry, ev.kernel_id)
          /\ kernel_registry[ev.kernel_id].container_id = ev.container_id
          /\ Has(containers, ev.container_id)
          /\ containers[ev.container_id].status \in DEAD_STATUS_SET
          /\ ~containers[ev.container_id].notified

\* C14: the reconciler is idempotent: a pass leaves the agent in a state in
\* which a second pass that enumerates the same alive containers enqueues
\* no event (no registry kernel is missing from the alive set and no alive
\* kernel-id is missing from the registry, kernels being restarted aside).
C14_SecondPassSilent ==
    [][SyncEnds =>
          /\ {k \in DOMAIN kernel_registry' \ DOMAIN sync_alive :
                 ~Has(restarting_kernels', k)} = {}
          /\ {k \in DOMAIN sync_alive \ DOMAIN kernel_registry' :
                 ~Has(restarting_kernels', k)} = {}]_vars


\* the steps the agent and the backend's event monitor take by themselves:
\* the consumer, the handlers, a started reconciler pass, reported exits
BootProgress ==
    \/ scan_running_kernels
    \/ DispatchStart
    \/ DispatchDestroy
    \/ \E h \in InFlight : HandleDestroyBackend(h)
    \/ DispatchClean
    \/ \E h \in InFlight : HandleCleanBackend(h)
    \/ \E h \in InFlight : HandleCleanForget(h)
    \/ \E h \in InFlight : HandleCleanTerminated(h)
    \/ \E cid \in DOMAIN containers : BackendDieEvent(cid)
    \/ SyncEnd

\* the booting agent whose tasks are scheduled as long as they can run
SpecBootLive == SpecBoot /\ WF_vars(BootProgress)

\* every event and every follow-up event has been handled
Drained ==
    /\ Quiescent
    /\ \A c \in DOMAIN containers :
          containers[c].status \in DEAD_STATUS_SET => containers[c].notified

AliveKernelIds == {containers[c].kernel_id : c \in Enumerate(ACTIVE_STATUS_SET)}

----------------------------------------------------------------------------
(* The reconciler's DESTROY of an unknown container.                       *)

UnknownReason == "terminated-unknown-container"

\* C16 as stated: a DESTROY 'terminated-unknown-container' that the consumer
\* dispatches while the kernel has no handle and the event has a
\* container-id makes the DESTROY handler enqueue a CLEAN with the same
\* kernel-id, container-id and reason; the CLEAN handler of an event with
\* that reason calls the backend cleanup for that container (it removes the
\* container or raises) and always goes on to publish kernel_terminated
\* for its kernel with that reason.
C16_UnknownContainerTerminated ==
    [][ /\ ( /\ container_lifecycle_queue # <<>>
             /\ HeadEvent.event = "DESTROY" /\ HeadEvent.reason = UnknownReason
             /\ handlers' = Spawned(Handler(HeadEvent, "destroy"))
             /\ ~Has(kernel_registry, HeadEvent.kernel_id)
             /\ HeadEvent.container_id # None ) =>
                 container_lifecycle_queue' =
                    Append(Tail(container_lifecycle_queue),
                           [kernel_id |-> HeadEvent.kernel_id,
                            container_id |-> HeadEvent.container_id,
                            event |-> "CLEAN", reason |-> UnknownReason,
                            done_event |-> None])
        /\ \A h \in InFlight :
              ( /\ h.ev.event = "CLEAN" /\ h.ev.reason = UnknownReason ) =>
                 /\ ( h.pc = "clean" /\ (Ends(h) \/ GoesOn(h, "close")
                                           \/ GoesOn(h, "rescan")) ) =>
                       \/ containers' = containers
                       \/ /\ Has(containers, h.ev.container_id)
                          /\ containers' = Pop(containers, h.ev.container_id)
                 /\ h.pc \in {"clean", "close"} => ~Ends(h)
                 /\ ( h.pc = "rescan" /\ Ends(h) ) =>
                       kernel_terminated' =
                          [kernel_terminated EXCEPT
                              ![h.ev.kernel_id] = Append(@, UnknownReason)] ]_vars

\* C16, amended: a DESTROY 'terminated-unknown-container' that the consumer
\* dispatches while the kernel has no handle and the event has a
\* container-id makes the DESTROY handler enqueue a CLEAN with the same
\* kernel-id, container-id and reason; the CLEAN handler of an event with
\* that reason calls the backend cleanup for that container (it removes the
\* container or raises), goes on to publish unless a restart tracker is
\* registered for the kernel, and what it publishes is kernel_terminated
\* for its kernel with that reason.
C16_UnknownContainerCleaned ==
    [][ /\ ( /\ container_lifecycle_queue # <<>>
             /\ HeadEvent.event = "DESTROY" /\ HeadEvent.reason = UnknownReason
             /\ handlers' = Spawned(Handler(HeadEvent, "destroy"))
             /\ ~Has(kernel_registry, HeadEvent.kernel_id)
             /\ HeadEvent.container_id # None ) =>
                 container_lifecycle_queue' =
                    Append(Tail(container_lifecycle_queue),
                           [kernel_id |-> HeadEvent.kernel_id,
                            container_id |-> HeadEvent.container_id,
                            event |-> "CLEAN", reason |-> UnknownReason,
                            done_event |-> None])
        /\ \A h \in InFlight :
              ( /\ h.ev.event = "CLEAN" /\ h.ev.reason = UnknownReason ) =>
                 /\ ( h.pc = "clean" /\ (Ends(h) \/ GoesOn(h, "close")
                                           \/ GoesOn(h, "rescan")) ) =>
                       \/ containers' = containers
                       \/ /\ Has(containers, h.ev.container_id)
                          /\ containers' = Pop(containers, h.ev.container_id)
                 /\ ( h.pc \in {"clean", "close"} /\ Ends(h) ) =>
                       Has(restarting_kernels, h.ev.kernel_id)
                 /\ ( h.pc = "rescan" /\ Ends(h) ) =>
                       kernel_terminated' =
                          [kernel_terminated EXCEPT
                              ![h.ev.kernel_id] = Append(@, UnknownReason)] ]_vars

\* C16 witness: the reconciler took the container of a kernel without
\* handle for unknown; the backend cleanup has removed it and
\* kernel_terminated 'terminated-unknown-container' is published
C16_UnknownContainerGone ==
    \E c \in DOMAIN calls :
        /\ calls[c].op = "create" /\ calls[c].pc \in {"register", "created"}
        /\ ~Has(containers, SpawnedId(c))
        /\ \E i \in DOMAIN kernel_terminated[calls[c].kernel_id] :
              kernel_terminated[calls[c].kernel_id][i] = UnknownReason
----------------------------------------------------------------------------
(* DESTROY of a kernel that is already gone.                               *)

\* how often kernel_terminated was published for kernel k with this reason
Published(k, reason) ==
    Cardinality({i \in DOMAIN kernel_terminated[k] : kernel_terminated[k][i] = reason})

\* C17: however many DESTROY events arrive for a kernel that is missing
\* from the registry and carry no container-id, kernel_terminated
\* 'already-terminated' is published at most once for that kernel.
C17_AlreadyTerminatedOnce ==
    \A k \in KernelIds : Published(k, "already-terminated") <= 1

----------------------------------------------------------------------------
(* Events with a done-notifier: a caller of                                *)
(* inject_container_lifecycle_event(..., done_event=asyncio.Event()) that *)
(* waits for the notifier.                                                 *)

Waits == {c \in DOMAIN calls : calls[c].op = "wait"}

\* the caller creates the notifier, injects the event and awaits the notifier
InjectWaited(k, event) ==
    /\ booted /\ budget.events > 0 /\ Requested(k)
    /\ budget' = [budget EXCEPT !.events = @ - 1]
    /\ kernel_registry' = InjectedRegistry(kernel_registry, k, None)
    /\ container_lifecycle_queue' =
          Append(container_lifecycle_queue,
                 InjectedEvent(kernel_registry, k, event, "user-requested", None, NextCall))
    /\ calls' = Put(calls, NextCall, Call("wait", k, "waiting", None))
    /\ UNCHANGED <<port_pool, alloc_map, restarting_kernels, trackers, resource_lock,
                   handlers, sync_alive, containers, kernel_terminated, booted,
                   last_registry, runner, auxVars>>

NextDone ==
    \/ DispatchDestroy
    \/ \E h \in InFlight : HandleDestroyMissing(h)
    \/ \E h \in InFlight : HandleDestroyBackend(h)
    \/ DispatchClean
    \/ \E h \in InFlight : HandleCleanBackend(h)
    \/ \E h \in InFlight : HandleCleanForget(h)
    \/ \E h \in InFlight : HandleCleanTerminated(h)
    \/ \E cid \in DOMAIN containers : BackendDieEvent(cid)
    \/ \E k \in KernelIds : RpcCreateKernel(k)
    \/ \E c \in DOMAIN calls : CreateAllocate(c)
    \/ \E c \in DOMAIN calls : CreateSpawn(c)
    \/ \E c \in DOMAIN calls : CreateRegister(c)
    \/ \E k \in KernelIds, event \in {"DESTROY", "CLEAN"} : InjectWaited(k, event)

SpecDone == Init /\ [][NextDone]_vars

\* the consumer can take the event at the head of the queue
CanDispatch == ENABLED (DispatchStart \/ DispatchDestroy \/ DispatchClean)

\* C18: a DESTROY or CLEAN handler whose event has a done-notifier has set
\* it when it ends, whichever way it ends (the backend call returning or
\* raising, the handle missing); the CLEAN handler has set it when it
\* leaves its finally for the rescan; and whatever the handlers did, the
\* consumer can dispatch the next event of the queue.
C18_DoneAlwaysSet ==
    /\ [][ \A h \in InFlight :
              ( /\ h.ev.done_event # None
                /\ \/ Ends(h)
                   \/ h.pc # "rescan" /\ GoesOn(h, "rescan") ) =>
                    calls'[h.ev.done_event].pc = "set" ]_vars
    /\ [](container_lifecycle_queue # <<>> => CanDispatch)

\* C18 witness: the backend's destroy raised (the one fault of the run; the
\* container still runs and the handle is still registered), the handler
\* has ended and the notifier of its event is set
C18_SetAfterRaise ==
    \E c \in Waits :
        /\ Waits = {c} /\ calls[c].pc = "set"
        /\ budget.events = 0 /\ handlers = EmptyBag
        /\ \A x \in DOMAIN calls : calls[x].op = "create" => calls[x].pc = "created"
        /\ Has(kernel_registry, calls[c].kernel_id)
        /\ kernel_registry[calls[c].kernel_id].termination_reason = "user-requested"
        /\ kernel_registry[calls[c].kernel_id].container_id \in Enumerate(ACTIVE_STATUS_SET)
----------------------------------------------------------------------------
(* Boot after a shutdown that persisted the registry.                      *)

\* the registry file exists and holds a handle for every container the
\* last process left behind, all of them with a supported kernelspec
SentinelBoot ==
    /\ last_registry.exists
    /\ \A c \in DOMAIN containers :
          /\ containers[c].kernelspec_ok
          /\ Has(last_registry.registry, containers[c].kernel_id)
          /\ last_registry.registry[containers[c].kernel_id].container_id = c

\* the events of the scan are handled and nothing else has happened since
ScanDrained == Quiescent /\ budget = Budget

\* C19: on boot after a sentinel shutdown scan_running_kernels loads the
\* persisted registry, injects START for every active container and CLEAN
\* 'self-terminated' for every dead one, and once these events are handled
\* every live container has exactly one handle, and the free port pool and
\* the in-range host ports of the handles partition the port range.
C19_BootRestoresInvariants ==
    /\ [][ (SentinelBoot /\ ~booted /\ booted') =>
              /\ kernel_registry' = last_registry.registry
              /\ Len(container_lifecycle_queue') = Cardinality(DOMAIN containers)
              /\ \A c \in DOMAIN containers :
                    \E i \in DOMAIN container_lifecycle_queue' :
                       container_lifecycle_queue'[i] =
                          [kernel_id |-> containers[c].kernel_id, container_id |-> c,
                           event |-> IF containers[c].status \in ACTIVE_STATUS_SET
                                     THEN "START" ELSE "CLEAN",
                           reason |-> IF containers[c].status \in ACTIVE_STATUS_SET
                                      THEN "resuming-agent-operation"
                                      ELSE "self-terminated",
                           done_event |-> None] ]_vars
    /\ []( (SentinelBoot /\ ScanDrained) =>
              /\ \A c \in LiveContainers : Cardinality(HandlesOf(c)) = 1
              /\ \A k \in DOMAIN kernel_registry : HeldPorts(k) \cap port_pool = {}
              /\ Cardinality(port_pool) + HeldCount = Cardinality(PortRange) )

----------------------------------------------------------------------------
(* The kernel runner (kernel.py): one active output queue, the pending     *)
(* queues of the runs that wait for it, and the API requests that read it. *)
(* A request is cut at its awaits: attach_output_queue (up to the wait on  *)
(* its activated event), the rest of it, feeding the code, calling get()   *)
(* on the active queue, and receiving one record.                          *)

\* run-ids the clients use
MaxRuns == 3
\* execute requests the runner serves
MaxRequests == 3
\* console frames the kernel sends besides the terminal ones
MaxFrames == 1

RunIds == 1..MaxRuns
TerminalTypes == {"finished", "exec-timeout"}

ResultRecord(msg_type, run) == [msg_type |-> msg_type, run |-> run]
PendingQueue(run_id, q) == [run_id |-> run_id, q |-> q]
\* an execute request: its run, the queue attach_output_queue gave it, the
\* queue its get() waits on, and whether it brings the code of the run
\* ("query") or goes on with a run that is under way ("continue")
Request(run_id, q, mode, pc) ==
    [run_id |-> run_id, q |-> q, mode |-> mode, on |-> None, pc |-> pc, status |-> ""]

PendingRuns(p) == {p[i].run_id : i \in DOMAIN p}
QueueOf(p, run_id) == p[CHOOSE i \in DOMAIN p : p[i].run_id = run_id].q
\* OrderedDict.pop(run_id, None)
Without(p, run_id) == SelectSeq(p, LAMBDA e : e.run_id # run_id)
\* OrderedDict.move_to_end(run_id, last=False)
MovedFirst(p, run_id) == <<PendingQueue(run_id, QueueOf(p, run_id))>> \o Without(p, run_id)

\* a faulty activation that wakes nobody
ActivatedNone(reqs, q) == reqs

\* activated.set(): every request that waits for queue q goes on
Activated(reqs, q) ==
    [n \in DOMAIN reqs |->
        IF reqs[n].pc = "wait" /\ reqs[n].q = q THEN [reqs[n] EXCEPT !.pc = "woken"]
        ELSE reqs[n]]

\* a faulty dispatcher that writes into the queue created last, active or not
NewestQueue(rn) == Len(rn.queues)

\* read_output: the queue a console frame is put into
DispatchQueue(rn) == rn.output_queue

\* next_output_queue: forget the current run, activate the first pending one
next_output_queue(rn) ==
    LET rest == Without(rn.pending_queues, rn.current_run_id) IN
    IF rest # <<>>
    THEN [rn EXCEPT !.pending_queues = Tail(rest), !.current_run_id = None,
                    !.output_queue = Head(rest).q,
                    !.requests = Activated(rn.requests, Head(rest).q)]
    ELSE [rn EXCEPT !.pending_queues = rest, !.current_run_id = None,
                    !.output_queue = None]

\* resume_output_queue: keep the current run first in line
resume_output_queue(rn) ==
    [rn EXCEPT !.pending_queues = MovedFirst(rn.pending_queues, rn.current_run_id)]

\* attach_output_queue(run_id) up to its first suspension point
attach_output_queue(rn, run_id) ==
    LET known == run_id \in PendingRuns(rn.pending_queues)
        q == IF known THEN QueueOf(rn.pending_queues, run_id) ELSE Len(rn.queues) + 1
        mode == IF known \/ rn.current_run_id = run_id THEN "continue" ELSE "query"
        made == IF known THEN rn
                ELSE [rn EXCEPT !.queues = Append(rn.queues, <<>>),
                                !.pending_queues =
                                    Append(rn.pending_queues, PendingQueue(run_id, q))]
    IN  IF rn.output_queue = None
        THEN [made EXCEPT !.output_queue = q, !.current_run_id = run_id,
                          !.requests = Append(rn.requests, Request(run_id, q, mode, "attached"))]
        ELSE IF rn.current_run_id = run_id
        THEN [made EXCEPT !.requests = Append(rn.requests,
                    Request(run_id, q, mode,
                            IF rn.output_queue = q THEN "attached" ELSE "failed"))]
        ELSE [made EXCEPT !.requests = Append(rn.requests, Request(run_id, q, mode, "wait"))]

\* a client sends an execute request for run_id
RunnerAttach(run_id) ==
    /\ Len(runner.requests) < MaxRequests
    /\ runner' = attach_output_queue(runner, run_id)
    /\ UNCHANGED <<agentVars, taskVars, containers, kernel_terminated, budget, booted,
                   last_registry, auxVars>>

\* attach_output_queue after activated.wait(): clear, take the run, assert
RunnerAttachResume(n) ==
    /\ runner.requests[n].pc = "woken"
    /\ runner' = [runner EXCEPT
            !.current_run_id = runner.requests[n].run_id,
            !.requests[n].pc = IF runner.output_queue = runner.requests[n].q
                               THEN "attached" ELSE "failed"]
    /\ UNCHANGED <<agentVars, taskVars, containers, kernel_terminated, budget, booted,
                   last_registry, auxVars>>

\* the request feeds the code of its run to the kernel, or nothing new if
\* it goes on with a run that is under way
RunnerFeed(n) ==
    /\ runner.requests[n].pc = "attached"
    /\ runner' = [runner EXCEPT
            !.executing = IF runner.requests[n].mode = "query"
                          THEN Append(@, runner.requests[n].run_id) ELSE @,
            !.requests[n].pc = "fed"]
    /\ UNCHANGED <<agentVars, taskVars, containers, kernel_terminated, budget, booted,
                   last_registry, auxVars>>

\* get_next_result: await self.output_queue.get() binds the active queue
RunnerGet(n) ==
    /\ runner.requests[n].pc = "fed"
    /\ runner' = IF runner.output_queue = None
                 THEN [runner EXCEPT !.requests[n].pc = "failed"]
                 ELSE [runner EXCEPT !.requests[n].pc = "get",
                                     !.requests[n].on = runner.output_queue]
    /\ UNCHANGED <<agentVars, taskVars, containers, kernel_terminated, budget, booted,
                   last_registry, auxVars>>

\* a record that a request of run_id has taken out of a queue
Delivery(run_id, rec) == [to |-> run_id, rec |-> rec]

\* get_next_result: one record arrives; a terminal one ends the request
\* through next_output_queue, whose assert fails if no run is current
RunnerRecord(n) ==
    /\ runner.requests[n].pc = "get"
    /\ runner.queues[runner.requests[n].on] # <<>>
    /\ LET q == runner.requests[n].on
           rec == Head(runner.queues[q])
           taken == [runner EXCEPT !.queues[q] = Tail(@),
                                   !.delivered = Append(@, Delivery(runner.requests[n].run_id, rec))]
       IN  runner' =
             IF rec.msg_type \notin TerminalTypes
             THEN [taken EXCEPT !.requests[n].pc = "fed"]
             ELSE IF runner.current_run_id = None
             THEN [taken EXCEPT !.requests[n].pc = "failed"]
             ELSE LET nxt == next_output_queue(taken)
                  IN [nxt EXCEPT !.requests[n].pc = "done",
                                 !.requests[n].status = rec.msg_type]
    /\ UNCHANGED <<agentVars, taskVars, containers, kernel_terminated, budget, booted,
                   last_registry, auxVars>>

\* get_next_result: the flush timeout passes, the result is "continued";
\* resume_output_queue raises if no run is current or the current run has
\* left the pending queues
RunnerTimeout(n) ==
    /\ runner.requests[n].pc = "get"
    /\ runner.queues[runner.requests[n].on] = <<>>
    /\ runner' =
         IF runner.current_run_id \in PendingRuns(runner.pending_queues)
         THEN LET res == resume_output_queue(runner)
              IN [res EXCEPT !.requests[n].pc = "done", !.requests[n].status = "continued"]
         ELSE [runner EXCEPT !.requests[n].pc = "failed"]
    /\ UNCHANGED <<agentVars, taskVars, containers, kernel_terminated, budget, booted,
                   last_registry, auxVars>>

ConsoleFrames(s) == Cardinality({i \in DOMAIN s : s[i].msg_type = "stdout"})
FramesSent(rn) == ConsoleFrames(rn.sock) + ConsoleFrames(rn.received)

\* the kernel sends a frame of the run it executes; a terminal one ends the run
KernelSends(msg_type) ==
    /\ runner.executing # <<>>
    /\ msg_type = "stdout" => FramesSent(runner) < MaxFrames
    /\ runner' = [runner EXCEPT
            !.sock = Append(@, ResultRecord(msg_type, Head(runner.executing))),
            !.executing = IF msg_type \in TerminalTypes THEN Tail(@) ELSE @]
    /\ UNCHANGED <<agentVars, taskVars, containers, kernel_terminated, budget, booted,
                   last_registry, auxVars>>

\* the capacity of an output queue, asyncio.Queue(maxsize=4096)
MaxSize == 1

Full(rn, q) == Len(rn.queues[q]) >= MaxSize

\* the reader suspended in "await q.put(rec)"
BlockedPut(q, rec) == [q |-> q, rec |-> rec]

\* read_output: one frame is read from the socket; it is dropped if no
\* queue is active; otherwise it is put into the active queue, and the
\* reader is suspended in put() for as long as that queue is full
read_output ==
    /\ runner.sock # <<>>
    /\ runner.reader.q = None
    /\ LET rec == Head(runner.sock)
           q == DispatchQueue(runner)
           got == [runner EXCEPT !.sock = Tail(@), !.received = Append(@, rec)]
       IN runner' =
            IF runner.output_queue = None THEN got
            ELSE IF Full(runner, q) THEN [got EXCEPT !.reader = BlockedPut(q, rec)]
            ELSE [got EXCEPT !.queues[q] = Append(@, rec)]
    /\ UNCHANGED <<agentVars, taskVars, containers, kernel_terminated, budget, booted,
                   last_registry, auxVars>>

\* read_output: the queue the reader waits for has room again, put() returns
ReaderResumes ==
    /\ runner.reader.q # None
    /\ ~Full(runner, runner.reader.q)
    /\ runner' = [runner EXCEPT !.queues[runner.reader.q] = Append(@, runner.reader.rec),
                                !.reader = NoRunner.reader]
    /\ UNCHANGED <<agentVars, taskVars, containers, kernel_terminated, budget, booted,
                   last_registry, auxVars>>

NextRunner ==
    \/ \E run_id \in RunIds : RunnerAttach(run_id)
    \/ \E n \in DOMAIN runner.requests : RunnerAttachResume(n)
    \/ \E n \in DOMAIN runner.requests : RunnerFeed(n)
    \/ \E n \in DOMAIN runner.requests : RunnerGet(n)
    \/ \E n \in DOMAIN runner.requests : RunnerRecord(n)
    \/ \E n \in DOMAIN runner.requests : RunnerTimeout(n)
    \/ \E msg_type \in {"stdout"} \cup TerminalTypes : KernelSends(msg_type)
    \/ read_output
    \/ ReaderResumes

SpecRunner == Init /\ [][NextRunner]_vars

\* the queues the runner knows: the active one and the pending ones
KnownQueues(rn) ==
    ({rn.output_queue} \ {None}) \cup {rn.pending_queues[i].q : i \in DOMAIN rn.pending_queues}

\* the requests that have come out of attach_output_queue(run_id) with queue q
AttachedFor(rn, run_id, q) ==
    {n \in DOMAIN rn.requests :
        /\ rn.requests[n].run_id = run_id
        /\ rn.requests[n].q = q
        /\ rn.requests[n].pc \notin {"wait", "woken"}}

\* the queues that grow in this step
Grown == {q \in DOMAIN runner.queues : Len(runner'.queues[q]) > Len(runner.queues[q])}

\* the queues the runner forgets in this step
Detached == KnownQueues(runner) \ KnownQueues(runner')

\* the run-ids a queue was attached for
RunsOf(rn, q) == {rn.requests[n].run_id : n \in {m \in DOMAIN rn.requests : rn.requests[m].q = q}}

\* C20: a frame of a run is put only into a queue that a request of that run
\* has come out of attach_output_queue with, and the runner forgets a queue
\* of a run-id only in the step in which a request takes a finished or
\* exec-timeout record of that run out of the active queue and ends with
\* that status
C20_AttachedBeforeDispatchDetachedAfterTerminal ==
    [][/\ \A q \in Grown :
            LET rec == runner'.queues[q][Len(runner'.queues[q])]
            IN AttachedFor(runner, rec.run, q) # {}
       /\ \A q \in Detached :
            \E n \in DOMAIN runner.requests :
                LET active == runner.output_queue IN
                /\ runner.requests[n].pc = "get"
                /\ runner.requests[n].on = active
                /\ runner.queues[active] # <<>>
                /\ Head(runner.queues[active]).msg_type \in TerminalTypes
                /\ Head(runner.queues[active]).run \in RunsOf(runner, q)
                /\ runner'.requests[n].pc = "done"
                /\ runner'.requests[n].status = Head(runner.queues[active]).msg_type]_vars

\* a run got its finished record through its own queue, the runner has
\* forgotten that queue, and the queue of the run that waited behind it is
\* the active one
C20_SecondRunActivated ==
    \E n, m \in DOMAIN runner.requests :
        /\ runner.requests[n].status = "finished"
        /\ runner.requests[m].pc = "attached"
        /\ runner.requests[m].run_id # runner.requests[n].run_id
        /\ runner.output_queue = runner.requests[m].q
        /\ runner.requests[n].q \notin KnownQueues(runner)
        /\ FramesSent(runner) = 0
        /\ runner.sock = <<>>
        /\ runner.executing = <<>>

----------------------------------------------------------------------------
(* Claims about the multiplexed output queues of the runner.               *)

\* the pending entries of the runs other than run_id, oldest first
OtherPending(rn, run_id) == Without(rn.pending_queues, run_id)

\* request n ends in this step with a finished or exec-timeout record of the
\* run that is current, read from that run's active queue
EndsTerminal(n) ==
    /\ runner.requests[n].pc = "get"
    /\ runner'.requests[n].pc = "done"
    /\ runner'.requests[n].status \in TerminalTypes
    /\ runner.requests[n].run_id = runner.current_run_id
    /\ runner.requests[n].q = runner.output_queue
    /\ runner.requests[n].on = runner.output_queue

\* C21: when a request of the active run ends with finished or exec-timeout,
\* the runner forgets the run's queue; if other runs are pending, the queue
\* of the one that attached first becomes the active queue, leaves the
\* pending queues, and every request waiting for it is woken; if none is
\* pending the active queue becomes unset
C21_TerminalHandsOver ==
    [][\A n \in DOMAIN runner.requests :
        EndsTerminal(n) =>
            LET A == runner.current_run_id
                others == OtherPending(runner, A)
            IN  /\ runner.requests[n].q \notin KnownQueues(runner')
                /\ A \notin PendingRuns(runner'.pending_queues)
                /\ others = <<>> => runner'.output_queue = None
                /\ others # <<>> =>
                      /\ \A i \in DOMAIN others : others[1].q <= others[i].q
                      /\ runner'.output_queue = others[1].q
                      /\ runner'.pending_queues = Tail(others)
                      /\ \A m \in DOMAIN runner.requests :
                            (runner.requests[m].pc = "wait" /\ runner.requests[m].q = others[1].q)
                                => runner'.requests[m].pc = "woken"
                      /\ \E m \in DOMAIN runner.requests :
                            /\ runner.requests[m].pc = "wait"
                            /\ runner.requests[m].q = others[1].q]_vars

\* run A has ended with finished while two other runs were pending: the
\* waiter of the older one is woken and its queue is the active one, the
\* younger one still waits
C21_OldestWoken ==
    \E n, m, l \in DOMAIN runner.requests :
        /\ runner.requests[n].status = "finished"
        /\ runner.requests[m].pc = "woken"
        /\ runner.requests[l].pc = "wait"
        /\ runner.requests[m].q < runner.requests[l].q
        /\ runner.output_queue = runner.requests[m].q
        /\ runner.pending_queues = <<PendingQueue(runner.requests[l].run_id, runner.requests[l].q)>>


\* the flush timeout of request n passes in this step while the request
\* reads the active queue of its run, which is the current run
FlushTimesOut(n) ==
    /\ runner.requests[n].pc = "get"
    /\ runner.queues[runner.requests[n].on] = <<>>
    /\ runner'.requests[n].pc # "get"
    /\ runner.requests[n].run_id = runner.current_run_id
    /\ runner.requests[n].q = runner.output_queue
    /\ runner.requests[n].on = runner.output_queue

\* C22: when get_next_result of the current run ends with continued, also
\* for a run that was pending before it became active, the request returns
\* that status, the run's queue stays the active queue and is first in the
\* pending queues, so that the next attach_output_queue with the same
\* run-id finds it there
C22_ContinuedKeepsQueue ==
    [][\A n \in DOMAIN runner.requests :
        FlushTimesOut(n) =>
            /\ runner'.requests[n].pc = "done"
            /\ runner'.requests[n].status = "continued"
            /\ runner'.output_queue = runner.output_queue
            /\ runner'.current_run_id = runner.current_run_id
            /\ runner'.pending_queues # <<>>
            /\ Head(runner'.pending_queues) =
                   PendingQueue(runner.requests[n].run_id, runner.requests[n].q)]_vars

----------------------------------------------------------------------------
(* The execution watchdog (kernel.py: watchdog).                           *)

\* self.output_queue.put(ResultRecord('exec-timeout', None)): put is a
\* coroutine function and the call is not awaited, so the coroutine object
\* is made and thrown away and the queue stays as it is
WatchdogPut(rn) == rn

\* the watchdog task is scheduled when a run starts
WatchdogStart ==
    /\ runner.watchdog = "off"
    /\ runner.executing # <<>>
    /\ runner' = [runner EXCEPT !.watchdog = "armed"]
    /\ UNCHANGED <<agentVars, taskVars, containers, kernel_terminated, budget, booted,
                   last_registry, auxVars>>

\* watchdog: asyncio.sleep(exec_timeout) is over
watchdog ==
    /\ runner.watchdog = "armed"
    /\ LET fired == [runner EXCEPT !.watchdog = "fired"]
       IN runner' = IF runner.output_queue # None THEN WatchdogPut(fired) ELSE fired
    /\ UNCHANGED <<agentVars, taskVars, containers, kernel_terminated, budget, booted,
                   last_registry, auxVars>>

NextWatchdog ==
    \/ NextRunner
    \/ WatchdogStart
    \/ watchdog

SpecWatchdog == Init /\ [][NextWatchdog]_vars

\* the run that is current is still executed and a request reads its active
\* queue, which holds no record
RunOverdue ==
    /\ runner.executing # <<>>
    /\ Head(runner.executing) = runner.current_run_id
    /\ runner.output_queue # None
    /\ runner.queues[runner.output_queue] = <<>>
    /\ \E n \in DOMAIN runner.requests :
          /\ runner.requests[n].pc = "get"
          /\ runner.requests[n].on = runner.output_queue
          /\ runner.requests[n].run_id = runner.current_run_id

\* C23: when the watchdog fires for a run that has not finished, an
\* exec-timeout record is in the run's active output queue afterwards, for
\* the waiting get_next_result to return it
C23_WatchdogPostsExecTimeout ==
    [][(runner.watchdog = "armed" /\ runner'.watchdog = "fired" /\ RunOverdue)
        => /\ runner'.queues[runner.output_queue] # <<>>
           /\ Head(runner'.queues[runner.output_queue]).msg_type = "exec-timeout"]_vars

----------------------------------------------------------------------------
(* Claims about the reader task (read_output).                             *)

\* the reader takes a frame off the socket in this step
Receives == Len(runner'.sock) < Len(runner.sock)

\* C24: a frame received while no output queue is active, or while the
\* active output queue is full, is dropped: no queue changes and the reader
\* is not left waiting for room in a queue
C24_ReaderDropsAndGoesOn ==
    [][(Receives /\ (runner.output_queue = None \/ Full(runner, runner.output_queue)))
        => /\ runner'.queues = runner.queues
           /\ runner'.reader.q = None]_vars


\* the records received on the transport for run_id, in order
ReceivedFor(run_id) == SelectSeq(runner.received, LAMBDA rec : rec.run = run_id)

\* the records the requests of run_id have been given, in order
DeliveredTo(run_id) ==
    LET ds == SelectSeq(runner.delivered, LAMBDA d : d.to = run_id)
    IN [i \in DOMAIN ds |-> ds[i].rec]

IsPrefix(s, t) == Len(s) <= Len(t) /\ \A i \in DOMAIN s : s[i] = t[i]

\* C25: for every run-id, the records given to the requests of that run are
\* a prefix, in order, of the records received on the transport for it
C25_DeliveredIsPrefix ==
    \A run_id \in RunIds : IsPrefix(DeliveredTo(run_id), ReceivedFor(run_id))

----------------------------------------------------------------------------
(* The log shipper (agent.py: collect_logs).  The bytes of a container log *)
(* are numbered 1, 2, ... so that a lost, doubled or misplaced byte shows.  *)

\* fragments the log iterator yields
MaxFragments == 3
\* bytes in one fragment
MaxFragment == 3
\* container-logs.chunk-size
MaxChunk == 3

FragmentLengths ==
    UNION {[1..n -> 0..MaxFragment] : n \in 0..MaxFragments}

\* the fragments of a log whose fragments have the lengths lens
RECURSIVE LogFragments(_, _)
LogFragments(lens, offset) ==
    IF lens = <<>> THEN <<>>
    ELSE <<[i \in 1..Head(lens) |-> offset + i]>> \o
         LogFragments(Tail(lens), offset + Head(lens))

\* b''.join(records)
RECURSIVE Joined(_)
Joined(records) ==
    IF records = <<>> THEN <<>> ELSE Head(records) \o Joined(Tail(records))

\* collect_logs(kernel_id, container_id, async_log_iterator) when it starts
CollectLogs(chunk_size, fragments) ==
    [pc |-> "iter", chunk_size |-> chunk_size, fragments |-> fragments,
     async_log_iterator |-> fragments, chunk_buffer |-> <<>>, chunk_length |-> 0,
     log_length |-> 0, pushed |-> <<>>, expire |-> 0, kernel_log |-> FALSE]

InitLogs ==
    /\ kernel_registry = EmptyDict
    /\ port_pool = PortRange
    /\ alloc_map = NoAlloc
    /\ restarting_kernels = EmptyDict
    /\ trackers = EmptyDict
    /\ container_lifecycle_queue = <<>>
    /\ resource_lock = ""
    /\ containers = EmptyDict
    /\ handlers = EmptyBag
    /\ calls = EmptyDict
    /\ sync_alive = EmptyDict
    /\ kernel_terminated = [k \in KernelIds |-> <<>>]
    /\ budget = Budget
    /\ booted = TRUE
    /\ last_registry = NoFile
    /\ runner = NoRunner
    /\ krunner_match = NoMatch
    /\ console = NoConsole
    /\ lifecycle_handler = "running"
    /\ \E chunk_size \in 1..MaxChunk, lens \in FragmentLengths :
          log_shipper = CollectLogs(chunk_size, LogFragments(lens, 0))

\* a faulty shipper that stores the whole buffer as one chunk
WholeBuffer(cb, chunk_size) == cb

\* stored_chunk = bytes(cb[:chunk_size])
StoredChunk(cb, chunk_size) == SubSeq(cb, 1, chunk_size)

\* remaining = cb[chunk_size:]
Remaining(cb, chunk_size) == SubSeq(cb, chunk_size + 1, Len(cb))

\* where the loops go on: the while loop as long as a whole chunk is
\* buffered, else the next fragment
LogsLoop(chunk_length, chunk_size) == IF chunk_length >= chunk_size THEN "while" ELSE "iter"

\* async for fragment in async_log_iterator: the fragment is written to the
\* chunk buffer
LogsFragment ==
    /\ log_shipper.pc = "iter"
    /\ log_shipper.async_log_iterator # <<>>
    /\ LET fragment == Head(log_shipper.async_log_iterator)
           fragment_length == Len(fragment)
       IN log_shipper' = [log_shipper EXCEPT
              !.async_log_iterator = Tail(@),
              !.chunk_buffer = @ \o fragment,
              !.chunk_length = @ + fragment_length,
              !.log_length = @ + fragment_length,
              !.pc = LogsLoop(log_shipper.chunk_length + fragment_length,
                              log_shipper.chunk_size)]
    /\ UNCHANGED <<agentVars, taskVars, containers, kernel_terminated, budget, booted,
                   last_registry, runner, krunner_match, console,
                   lifecycle_handler>>

\* while chunk_length >= chunk_size: the first chunk_size bytes are pushed,
\* the rest becomes the new chunk buffer
LogsPushChunk ==
    /\ log_shipper.pc = "while"
    /\ LET cb == log_shipper.chunk_buffer
           remaining == Remaining(cb, log_shipper.chunk_size)
       IN log_shipper' = [log_shipper EXCEPT
              !.pushed = Append(@, StoredChunk(cb, log_shipper.chunk_size)),
              !.chunk_buffer = remaining,
              !.chunk_length = Len(remaining),
              !.pc = LogsLoop(Len(remaining), log_shipper.chunk_size)]
    /\ UNCHANGED <<agentVars, taskVars, containers, kernel_terminated, budget, booted,
                   last_registry, runner, krunner_match, console,
                   lifecycle_handler>>

\* the iterator is exhausted: the tail is pushed if it is not empty, the
\* list gets its TTL and kernel_log is produced
LogsTail ==
    /\ log_shipper.pc = "iter"
    /\ log_shipper.async_log_iterator = <<>>
    /\ log_shipper' = [log_shipper EXCEPT
           !.pushed = IF log_shipper.chunk_length > 0
                      THEN Append(@, log_shipper.chunk_buffer) ELSE @,
           !.expire = 3600,
           !.kernel_log = TRUE,
           !.pc = "done"]
    /\ UNCHANGED <<agentVars, taskVars, containers, kernel_terminated, budget, booted,
                   last_registry, runner, krunner_match, console,
                   lifecycle_handler>>

NextLogs ==
    \/ LogsFragment
    \/ LogsPushChunk
    \/ LogsTail

SpecLogs == InitLogs /\ [][NextLogs]_vars

\* C26: while collect_logs runs the pushed records followed by the chunk
\* buffer are the bytes read so far, and every record pushed by the while loop has
\* exactly chunk-size bytes; when collect_logs is done the pushed records
\* joined in push order are the joined fragments, only the last one may be
\* shorter than chunk-size, none is empty, and a log of exactly chunk-size
\* bytes has given exactly one record
C26_ChunksPartitionLog ==
    LET ls == log_shipper
        log == Joined(ls.fragments)
    IN  /\ ls.pc # "done" =>
              Joined(ls.pushed) \o ls.chunk_buffer = SubSeq(log, 1, ls.log_length)
        /\ ls.chunk_length = Len(ls.chunk_buffer)
        /\ \A i \in DOMAIN ls.pushed :
              /\ ls.pushed[i] # <<>>
              /\ Len(ls.pushed[i]) <= ls.chunk_size
              /\ (i < Len(ls.pushed) \/ ls.pc # "done") => Len(ls.pushed[i]) = ls.chunk_size
        /\ ls.pc = "done" =>
              /\ Joined(ls.pushed) = log
              /\ Len(log) = ls.chunk_size => ls.pushed = <<log>>

\* a log of exactly chunk-size bytes that came in two fragments has been
\* shipped as one record
C26_ExactChunkOneRecord ==
    /\ log_shipper.pc = "done"
    /\ Len(log_shipper.fragments) = 2
    /\ \A i \in DOMAIN log_shipper.fragments : log_shipper.fragments[i] # <<>>
    /\ log_shipper.log_length = log_shipper.chunk_size
    /\ Len(log_shipper.pushed) = 1

----------------------------------------------------------------------------
(* The port pool and the port range.                                       *)

\* the CLEAN handlers that are past port restoration and hold off before
\* kernel_obj.close() returns
RestoringHandlers ==
    {h \in DOMAIN handlers : h.ev.event = "CLEAN" /\ h.pc = "close"}

\* C27: the port pool holds only ports of the configured range, and the
\* step in which a CLEAN handler restores the ports of a handle adds exactly
\* the handle's host ports that lie in the range to the pool
C27_PoolStaysInRange ==
    /\ [](port_pool \subseteq PortRange)
    /\ [][\A h \in RestoringHandlers' \ RestoringHandlers :
             /\ Has(kernel_registry, h.ev.kernel_id)
             /\ port_pool' = port_pool \cup
                    (kernel_registry[h.ev.kernel_id].host_ports \cap PortRange)]_vars

\* a CLEAN handler has restored the ports of a handle that holds a port
\* outside the range, and the pool is the whole range
C27_OutOfRangeHandleCleaned ==
    \E h \in RestoringHandlers :
        /\ Has(kernel_registry, h.ev.kernel_id)
        /\ OutOfRangePort \in kernel_registry[h.ev.kernel_id].host_ports
        /\ port_pool = PortRange

----------------------------------------------------------------------------
(* match_krunner_volume (kernel.py).  A distro string is the sequence of   *)
(* its characters, a krunner_volumes mapping the sequence of its keys in    *)
(* insertion order (a volume is named by its key).                          *)

\* entries of container.krunner-volumes
MaxVolumes == 2

DigitValue(c) == CASE c = "0" -> 0 [] c = "1" -> 1 [] c = "2" -> 2 [] c = "3" -> 3
IsDigit(c) == c \in {"0", "1", "2", "3"}

\* str.split('.')
RECURSIVE Split(_)
Split(t) ==
    LET dots == {i \in DOMAIN t : t[i] = "."} IN
    IF dots = {} THEN <<t>>
    ELSE LET i == CHOOSE j \in dots : \A l \in dots : j <= l
         IN <<SubSeq(t, 1, i - 1)>> \o Split(SubSeq(t, i + 1, Len(t)))

\* the whole of t matches \d+(\.\d+)*
IsVersion(t) ==
    LET parts == Split(t) IN
    \A i \in DOMAIN parts :
        /\ parts[i] # <<>>
        /\ \A j \in DOMAIN parts[i] : IsDigit(parts[i][j])

\* rx_ver_suffix.search(s).group(1): the leftmost match that ends the
\* string, <<>> when there is no match
rx_ver_suffix(s) ==
    LET starts == {i \in DOMAIN s : IsVersion(SubSeq(s, i, Len(s)))} IN
    IF starts = {} THEN <<>>
    ELSE SubSeq(s, CHOOSE i \in starts : \A j \in starts : i <= j, Len(s))

\* int(component)
RECURSIVE IntOf(_)
IntOf(t) == IF t = <<>> THEN 0 ELSE IntOf(SubSeq(t, 1, Len(t) - 1)) * 10 + DigitValue(t[Len(t)])

\* tuple(map(int, rx_ver_suffix.search(key).group(1).split('.')))
VersionTuple(key) ==
    LET parts == Split(rx_ver_suffix(key)) IN [i \in DOMAIN parts |-> IntOf(parts[i])]

\* a < b for tuples of integers
RECURSIVE TupleLess(_, _)
TupleLess(a, b) ==
    IF b = <<>> THEN FALSE
    ELSE IF a = <<>> THEN TRUE
    ELSE IF Head(a) # Head(b) THEN Head(a) < Head(b)
    ELSE TupleLess(Tail(a), Tail(b))

\* str.startswith
StartsWith(key, prefix) ==
    Len(prefix) <= Len(key) /\ SubSeq(key, 1, Len(prefix)) = prefix

\* distro[:-len(m.group(1))], or the whole string when there is no version
DistroPrefix(distro) == SubSeq(distro, 1, Len(distro) - Len(rx_ver_suffix(distro)))

\* sorted(..., key=version tuple, reverse=True): stable
RECURSIVE SortedLatestFirst(_)
SortedLatestFirst(keys) ==
    IF keys = <<>> THEN <<>>
    ELSE LET rest == SortedLatestFirst(Tail(keys))
             above == {i \in DOMAIN rest :
                          TupleLess(VersionTuple(Head(keys)), VersionTuple(rest[i]))}
             n == Cardinality(above)
         IN SubSeq(rest, 1, n) \o <<Head(keys)>> \o SubSeq(rest, n + 1, Len(rest))

Returned(distro_key) == [pc |-> "returned", distro_key |-> distro_key]
Raised == [pc |-> "raised", distro_key |-> <<>>]

\* a faulty selection that takes the latest entry whatever is requested
LatestEntry(sorted, distro) ==
    IF sorted = <<>> THEN Raised ELSE Returned(sorted[1])

\* the selection among the sorted entries
SelectedEntry(sorted, distro) ==
    IF sorted = <<>> THEN Raised
    ELSE IF rx_ver_suffix(distro) = <<>> THEN Returned(sorted[1])
    ELSE IF \E i \in DOMAIN sorted : sorted[i] = distro THEN Returned(distro)
    ELSE Raised

match_krunner_volume(krunner_volumes, distro) ==
    SelectedEntry(
        SortedLatestFirst(SelectSeq(krunner_volumes,
                                    LAMBDA key : StartsWith(key, DistroPrefix(distro)))),
        distro)

\* keys of the configuration: a prefix and a version, as the function assumes
DistroKeys ==
    {<<"u", "1">>, <<"u", "2">>, <<"u", "0", "1">>, <<"u", "1", ".", "1">>,
     <<"u", "x", "2">>, <<"v", "1">>}

\* the distro of the image
Distros ==
    DistroKeys \cup
    {<<"u">>, <<"u", "x">>, <<"v">>, <<"w">>, <<"u", "3">>, <<"u", "0">>,
     <<"u", "1", ".", "0">>, <<"v", "2">>}

KrunnerVolumes ==
    {kv \in UNION {[1..n -> DistroKeys] : n \in 0..MaxVolumes} :
        \A i, j \in DOMAIN kv : i # j => kv[i] # kv[j]}

MatchCall(krunner_volumes, distro) ==
    [pc |-> "call", krunner_volumes |-> krunner_volumes, distro |-> distro,
     result |-> Raised]

InitMatch ==
    /\ kernel_registry = EmptyDict
    /\ port_pool = PortRange
    /\ alloc_map = NoAlloc
    /\ restarting_kernels = EmptyDict
    /\ trackers = EmptyDict
    /\ container_lifecycle_queue = <<>>
    /\ resource_lock = ""
    /\ containers = EmptyDict
    /\ handlers = EmptyBag
    /\ calls = EmptyDict
    /\ sync_alive = EmptyDict
    /\ kernel_terminated = [k \in KernelIds |-> <<>>]
    /\ budget = Budget
    /\ booted = TRUE
    /\ last_registry = NoFile
    /\ runner = NoRunner
    /\ log_shipper = NoLogs
    /\ console = NoConsole
    /\ lifecycle_handler = "running"
    /\ \E kv \in KrunnerVolumes, distro \in Distros : krunner_match = MatchCall(kv, distro)

\* the call returns an entry or raises RuntimeError
MatchKrunnerVolume ==
    /\ krunner_match.pc = "call"
    /\ krunner_match' = [krunner_match EXCEPT
           !.pc = "done",
           !.result = match_krunner_volume(krunner_match.krunner_volumes,
                                           krunner_match.distro)]
    /\ UNCHANGED <<agentVars, taskVars, containers, kernel_terminated, budget, booted,
                   last_registry, runner, log_shipper, console,
                   lifecycle_handler>>

NextMatch == MatchKrunnerVolume

SpecMatch == InitMatch /\ [][NextMatch]_vars

\* the configured keys
ConfiguredKeys == {krunner_match.krunner_volumes[i] : i \in DOMAIN krunner_match.krunner_volumes}

\* the entries that share the requested prefix
SamePrefix == {key \in ConfiguredKeys : StartsWith(key, DistroPrefix(krunner_match.distro))}

\* the entries of the requested prefix whose version is not above the
\* requested one (all of them when no version is requested)
NotAbove ==
    {key \in SamePrefix :
        \/ rx_ver_suffix(krunner_match.distro) = <<>>
        \/ ~TupleLess(VersionTuple(krunner_match.distro), VersionTuple(key))}

\* the call returned a highest-version entry of the set keys
ReturnedLatestOf(keys) ==
    /\ krunner_match.result.pc = "returned"
    /\ krunner_match.result.distro_key \in keys
    /\ \A key \in keys :
          ~TupleLess(VersionTuple(krunner_match.result.distro_key), VersionTuple(key))

\* C28 as stated: the call returns an entry of the requested prefix with the
\* highest version not above the requested one, and raises only when there
\* is no such entry
C28_ClosestNotAbove ==
    krunner_match.pc = "done" =>
        IF NotAbove = {} THEN krunner_match.result = Raised
        ELSE ReturnedLatestOf(NotAbove)

\* C28: a request without a version gets a highest-version entry among the
\* keys that start with the requested string; a request with a version gets
\* the entry whose key is the requested string, and the call raises when no
\* key is that string, whatever lower versions are configured
C28_LatestOrExact ==
    krunner_match.pc = "done" =>
        IF rx_ver_suffix(krunner_match.distro) = <<>>
        THEN IF SamePrefix = {} THEN krunner_match.result = Raised
             ELSE ReturnedLatestOf(SamePrefix)
        ELSE IF krunner_match.distro \in ConfiguredKeys
        THEN krunner_match.result = Returned(krunner_match.distro)
        ELSE krunner_match.result = Raised

\* the requested version is configured next to a later one of the same
\* prefix, and the requested one has been returned
C28_ExactAmongLater ==
    /\ krunner_match.pc = "done"
    /\ krunner_match.distro = <<"u", "1">>
    /\ krunner_match.krunner_volumes = <<<<"u", "2">>, <<"u", "1">>>>
    /\ krunner_match.result = Returned(<<"u", "1">>)

----------------------------------------------------------------------------
(* Shutdown: clean_all_kernels(blocking=True) gives every registered       *)
(* kernel a clean-event, injects DESTROY for it and waits for the events.  *)

\* [*self.kernel_registry.keys()]: the kernels in the order of their creation
RECURSIVE KernelKeys(_)
KernelKeys(ks) ==
    IF ks = {} THEN <<>>
    ELSE LET k == CHOOSE j \in ks : \A l \in ks : j <= l
         IN <<k>> \o KernelKeys(ks \ {k})

\* the loop over kernel_ids from position i on: the clean-event of a kernel
\* is named by the waiter that gathers it
RECURSIVE CleanAllInjected(_, _, _, _, _)
CleanAllInjected(kernel_ids, i, reg, queue, cs) ==
    IF i > Len(kernel_ids) THEN [kernel_registry |-> reg, queue |-> queue, calls |-> cs]
    ELSE LET k == kernel_ids[i]
             clean_event == Cardinality(DOMAIN cs) + 1
         IN CleanAllInjected(kernel_ids, i + 1,
                InjectedRegistry(reg, k, clean_event),
                Append(queue, InjectedEvent(reg, k, "DESTROY", "agent-termination",
                                            None, None)),
                Put(cs, clean_event, Call("clean_all", k, "waiting", None)))

ShuttingDown == \E c \in DOMAIN calls : calls[c].op = "clean_all"

\* the agent shuts down once
clean_all_kernels ==
    /\ booted
    /\ ~ShuttingDown
    /\ DOMAIN kernel_registry # {}
    /\ LET r == CleanAllInjected(KernelKeys(DOMAIN kernel_registry), 1, kernel_registry,
                                 container_lifecycle_queue, calls)
       IN /\ kernel_registry' = r.kernel_registry
          /\ container_lifecycle_queue' = r.queue
          /\ calls' = r.calls
    /\ UNCHANGED <<port_pool, alloc_map, restarting_kernels, trackers, resource_lock,
                   handlers, sync_alive, containers, kernel_terminated, budget, booted,
                   last_registry, runner, auxVars>>

NextShutdown ==
    \/ NextDone
    \/ clean_all_kernels

SpecShutdown == Init /\ [][NextShutdown]_vars

\* the backend call of CLEAN handler h raises in this step
CleanRaises(h) ==
    /\ h.ev.event = "CLEAN" /\ h.pc = "clean"
    /\ BagIn(h, handlers) /\ handlers' # handlers
    /\ CopiesIn(h, handlers') < CopiesIn(h, handlers)
    /\ budget'.events < budget.events

\* C29: when the backend call of a CLEAN handler raises and the kernel has
\* a handle, the handler goes on to its finally and gives the in-range host
\* ports of the handle back to the pool; and a CLEAN handler that comes back
\* from kernel_obj.close() sets the clean-event of the handle, if it has
\* one, and removes the kernel from the registry
C29_CleanFinallyRuns ==
    [][\A h \in InFlight :
          /\ (CleanRaises(h) /\ Has(kernel_registry, h.ev.kernel_id)) =>
                /\ GoesOn(h, "close")
                /\ containers' = containers
                /\ port_pool' = port_pool \cup
                       (kernel_registry[h.ev.kernel_id].host_ports \cap PortRange)
                /\ kernel_registry' = kernel_registry
          /\ ( /\ h.ev.event = "CLEAN" /\ h.pc = "close"
               /\ CopiesIn(h, handlers') < CopiesIn(h, handlers) ) =>
                /\ ~Has(kernel_registry', h.ev.kernel_id)
                /\ \A k \in DOMAIN kernel_registry :
                      (k = h.ev.kernel_id /\ kernel_registry[k].clean_event # None) =>
                          calls'[kernel_registry[k].clean_event].pc = "set"]_vars

\* the shutdown waits for a kernel whose cleanup raised: the container the
\* CLEAN event names is still there, and yet the handler has given the port
\* back, set the clean-event and removed the handle
C29_CleanedAfterRaise ==
    \E h \in InFlight, c \in DOMAIN calls :
        /\ h.ev.event = "CLEAN" /\ h.pc = "rescan"
        /\ h.ev.container_id # None
        /\ Has(containers, h.ev.container_id)
        /\ calls[c].op = "clean_all" /\ calls[c].pc = "set"
        /\ calls[c].kernel_id = h.ev.kernel_id
        /\ ~Has(kernel_registry, h.ev.kernel_id)
        /\ containers[h.ev.container_id].host_ports # {}
        /\ port_pool = PortRange
----------------------------------------------------------------------------
(* create_kernel with images that have to be pulled.                       *)

\* image checks that report a pull
MaxImagePulls == 1

InitPull ==
    /\ kernel_registry = EmptyDict
    /\ port_pool = PortRange
    /\ alloc_map = NoAlloc
    /\ restarting_kernels = EmptyDict
    /\ trackers = EmptyDict
    /\ container_lifecycle_queue = <<>>
    /\ resource_lock = ""
    /\ containers = EmptyDict
    /\ handlers = EmptyBag
    /\ calls = EmptyDict
    /\ sync_alive = EmptyDict
    /\ kernel_terminated = [k \in KernelIds |-> <<>>]
    /\ budget = [events |-> MaxEvents, pull |-> MaxImagePulls]
    /\ booted = TRUE
    /\ last_registry = NoFile
    /\ runner = NoRunner
    /\ log_shipper = NoLogs
    /\ krunner_match = NoMatch
    /\ console = NoConsole
    /\ lifecycle_handler = "running"

SpecPull == InitPull /\ [][NextRestart]_vars

\* create_kernel starts for call c in this step: a create_kernel RPC
\* arrives, or a restart_kernel call passes its wait and calls
\* create_kernel(restarting=True)
CreateStarts(c) ==
    \/ ~Has(calls, c) /\ Has(calls', c) /\ calls'[c].op = "create"
    \/ Has(calls, c) /\ calls[c].pc = "r_wait" /\ calls'[c].pc = "spawn"

\* the place of an event name in what a call has published, 0 if it is not there
PlaceOf(published, name) ==
    IF \E i \in DOMAIN published : published[i] = name
    THEN CHOOSE i \in DOMAIN published : published[i] = name
    ELSE 0

\* a pull is required: check_image returned True
PullRequired == budget'.pull < budget.pull

\* what holds of the events of every create_kernel call: kernel_preparing
\* if and only if it is not a restart, kernel_pulling if and only if a pull
\* is required, nothing twice, preparing before pulling before creating,
\* no slot allocated before them, and slots allocated only by a call that
\* has published kernel_creating
EventsOf(c) ==
    LET published == calls'[c].published
        preparing == PlaceOf(published, "kernel_preparing")
        pulling == PlaceOf(published, "kernel_pulling")
        creating == PlaceOf(published, "kernel_creating")
    IN  /\ CreateStarts(c) =>
              /\ preparing # 0 <=> ~Restarting(c)'
              /\ pulling # 0 <=> PullRequired
              /\ Len(published) = Cardinality({preparing, pulling, creating} \ {0})
              /\ (preparing # 0 /\ pulling # 0) => preparing < pulling
              /\ (preparing # 0 /\ creating # 0) => preparing < creating
              /\ (pulling # 0 /\ creating # 0) => pulling < creating
              /\ alloc_map' = alloc_map
              /\ calls'[c].reserved = NoAlloc
        /\ (Has(calls, c) /\ calls'[c].reserved # calls[c].reserved
                /\ calls'[c].reserved # NoAlloc) =>
              /\ published = calls[c].published
              /\ creating # 0

----------------------------------------------------------------------------
(* aggregate_console (kernel.py) for api-version 2 and 3.  The payload of  *)
(* a record is the sequence of its characters; the characters of the       *)
(* records are numbered so that a lost or misplaced one shows.             *)

\* records of one result
MaxRecords == 4

StreamTypes == {"stdout", "stderr"}
\* outgoing_msg_types, html standing for the types that are passed on as they are
OutgoingTypes == StreamTypes \cup {"media", "html"}

\* ResultRecord(msg_type, data) of the i-th record; a stream record may be
\* empty (the incremental decoder gives '' for an incomplete sequence)
ConsoleRecord(msg_type, i, empty) ==
    [msg_type |-> msg_type, data |-> IF empty THEN <<>> ELSE <<i>>]

ConsoleRecords ==
    UNION {{recs \in [1..n -> {ConsoleRecord(t, i, e) :
                                  t \in OutgoingTypes, i \in 1..n, e \in BOOLEAN}] :
               \A i \in 1..n :
                   /\ recs[i].data \in {<<>>, <<i>>}
                   /\ recs[i].msg_type \notin StreamTypes => recs[i].data # <<>>} :
           n \in 0..MaxRecords}

AggregateCall(api_ver, records) ==
    [pc |-> "loop", api_ver |-> api_ver, records |-> records, rest |-> records,
     console_items |-> <<>>, last_stdout |-> <<>>, last_stderr |-> <<>>]

InitConsole ==
    /\ kernel_registry = EmptyDict
    /\ port_pool = PortRange
    /\ alloc_map = NoAlloc
    /\ restarting_kernels = EmptyDict
    /\ trackers = EmptyDict
    /\ container_lifecycle_queue = <<>>
    /\ resource_lock = ""
    /\ containers = EmptyDict
    /\ handlers = EmptyBag
    /\ calls = EmptyDict
    /\ sync_alive = EmptyDict
    /\ kernel_terminated = [k \in KernelIds |-> <<>>]
    /\ budget = Budget
    /\ booted = TRUE
    /\ last_registry = NoFile
    /\ runner = NoRunner
    /\ log_shipper = NoLogs
    /\ krunner_match = NoMatch
    /\ \E api_ver \in {2, 3}, records \in ConsoleRecords :
          console = AggregateCall(api_ver, records)
    /\ lifecycle_handler = "running"

ConsoleItem(kind, payload) == [kind |-> kind, payload |-> payload]

\* a faulty flush that appends the buffer whether or not anything was written
FlushedAlways(items, kind, buffer, due) ==
    IF due THEN Append(items, ConsoleItem(kind, buffer)) ELSE items

\* if last_xxx.tell() and <due>: console_items.append((kind, getvalue()))
Flushed(items, kind, buffer, due) ==
    IF Len(buffer) # 0 /\ due THEN Append(items, ConsoleItem(kind, buffer)) ELSE items

\* what is left in a buffer after the flush test: seek(0), truncate(0)
Truncated(buffer, due) == IF Len(buffer) # 0 /\ due THEN <<>> ELSE buffer

\* one turn of  for rec in records
AggregateRecord ==
    /\ console.pc = "loop"
    /\ console.rest # <<>>
    /\ LET rec == Head(console.rest)
           items1 == Flushed(console.console_items, "stdout", console.last_stdout,
                             rec.msg_type # "stdout")
           out == Truncated(console.last_stdout, rec.msg_type # "stdout")
           items2 == Flushed(items1, "stderr", console.last_stderr,
                             rec.msg_type # "stderr")
           err == Truncated(console.last_stderr, rec.msg_type # "stderr")
       IN console' = [console EXCEPT
              !.rest = Tail(@),
              !.last_stdout = IF rec.msg_type = "stdout" THEN out \o rec.data ELSE out,
              !.last_stderr = IF rec.msg_type = "stderr" THEN err \o rec.data ELSE err,
              !.console_items =
                  IF rec.msg_type \in StreamTypes THEN items2
                  ELSE IF rec.msg_type \in OutgoingTypes
                  THEN Append(items2, ConsoleItem(rec.msg_type, rec.data))
                  ELSE items2]
    /\ UNCHANGED <<agentVars, taskVars, containers, kernel_terminated, budget, booted,
                   last_registry, runner, log_shipper, krunner_match,
                   lifecycle_handler>>

\* after the loop: what is left in the buffers, result['console']
AggregateEnd ==
    /\ console.pc = "loop"
    /\ console.rest = <<>>
    /\ console' = [console EXCEPT
           !.console_items = Flushed(Flushed(@, "stdout", console.last_stdout, TRUE),
                                     "stderr", console.last_stderr, TRUE),
           !.pc = "done"]
    /\ UNCHANGED <<agentVars, taskVars, containers, kernel_terminated, budget, booted,
                   last_registry, runner, log_shipper, krunner_match,
                   lifecycle_handler>>

NextConsole ==
    \/ AggregateRecord
    \/ AggregateEnd

SpecConsole == InitConsole /\ [][NextConsole]_vars

\* the characters of a list of records or items with their kinds, in order;
\* an entry that is no stream entry counts as one
RECURSIVE Spelled(_, _, _)
Spelled(entries, kind_of, text_of) ==
    IF entries = <<>> THEN <<>>
    ELSE LET e == Head(entries)
             kind == kind_of[e]
             text == text_of[e]
         IN (IF kind \in StreamTypes THEN [i \in DOMAIN text |-> <<kind, text[i]>>]
             ELSE <<<<kind, text>>>>)
            \o Spelled(Tail(entries), kind_of, text_of)

SpelledRecords(records) ==
    LET es == {records[i] : i \in DOMAIN records}
    IN Spelled(records, [e \in es |-> e.msg_type], [e \in es |-> e.data])

SpelledItems(items) ==
    LET es == {items[i] : i \in DOMAIN items}
    IN Spelled(items, [e \in es |-> e.kind], [e \in es |-> e.payload])

\* the maximal runs of consecutive records of one stream that are not
\* empty as a whole, named by the place of their first record
RunsWithText(records, kind) ==
    {i \in DOMAIN records :
        /\ records[i].msg_type = kind
        /\ (i = 1 \/ records[i - 1].msg_type # kind)
        /\ \E j \in i..Len(records) :
              /\ records[j].data # <<>>
              /\ \A l \in i..j : records[l].msg_type = kind}

ItemsOf(items, kind) == {j \in DOMAIN items : items[j].kind = kind}

\* C31 as stated: no two adjacent items of the console list are both stdout
\* or both stderr
C31_NoAdjacentSameStream ==
    console.pc = "done" =>
        \A j \in DOMAIN console.console_items :
            (j > 1 /\ console.console_items[j].kind \in StreamTypes) =>
                console.console_items[j - 1].kind # console.console_items[j].kind

\* C31: the console list spells the records in their order (so the stdout
\* items joined are the stdout records joined, and likewise stderr), every
\* maximal run of consecutive records of one stream that has any text is one
\* item, a run without text is none, and no stream item is empty
C31_RunsCoalesced ==
    console.pc = "done" =>
        /\ SpelledItems(console.console_items) = SpelledRecords(console.records)
        /\ \A kind \in StreamTypes :
              Cardinality(ItemsOf(console.console_items, kind)) =
                  Cardinality(RunsWithText(console.records, kind))
        /\ \A j \in DOMAIN console.console_items :
              console.console_items[j].payload # <<>>

\* two stdout records, a stderr record and a media record have become three
\* items: the stdout records are one item
C31_TwoStdoutOneItem ==
    /\ console.pc = "done"
    /\ Len(console.records) = 4
    /\ console.console_items =
          <<ConsoleItem("stdout", <<1, 2>>), ConsoleItem("stderr", <<3>>),
            ConsoleItem("media", <<4>>)>>

----------------------------------------------------------------------------
(* Shutdown of the lifecycle consumer: shutdown() puts the sentinel into   *)
(* the queue and the consumer persists the registry when it takes it out.  *)

Sentinel == ContainerLifecycleEvent(None, None, "SENTINEL", NoReason, None)

SentinelQueued ==
    \E i \in DOMAIN container_lifecycle_queue : container_lifecycle_queue[i] = Sentinel

\* shutdown: await self.container_lifecycle_queue.put(_sentinel); it is
\* called only once
shutdown ==
    /\ booted
    /\ ConsumerRuns /\ ~SentinelQueued
    /\ container_lifecycle_queue' = Append(container_lifecycle_queue, Sentinel)
    /\ UNCHANGED <<kernel_registry, port_pool, alloc_map, restarting_kernels, trackers,
                   resource_lock, taskVars, envVars>>

\* the consumer takes the sentinel: pickle.dump(self.kernel_registry), return
DispatchSentinel ==
    /\ Dispatching("SENTINEL")
    /\ container_lifecycle_queue' = Tail(container_lifecycle_queue)
    /\ last_registry' = File(kernel_registry)
    /\ lifecycle_handler' = "done"
    /\ UNCHANGED <<kernel_registry, port_pool, alloc_map, restarting_kernels, trackers,
                   resource_lock, taskVars, containers, kernel_terminated, budget, booted,
                   runner, log_shipper, krunner_match, console>>

NextStop ==
    \/ NextDone
    \/ shutdown
    \/ DispatchSentinel

SpecStop == Init /\ [][NextStop]_vars

\* the handler tasks in flight, counted
TasksInFlight == BagCardinality(handlers)

\* the queue only grows at its end in this step
OnlyAppended ==
    /\ Len(container_lifecycle_queue') >= Len(container_lifecycle_queue)
    /\ SubSeq(container_lifecycle_queue', 1, Len(container_lifecycle_queue)) =
          container_lifecycle_queue

\* the event at the head is taken and the queue may grow at its end
HeadTaken ==
    /\ container_lifecycle_queue # <<>>
    /\ Len(container_lifecycle_queue') >= Len(container_lifecycle_queue) - 1
    /\ SubSeq(container_lifecycle_queue', 1, Len(container_lifecycle_queue) - 1) =
          Tail(container_lifecycle_queue)

\* C32: the consumer takes the events in the order of the queue, so when it
\* takes the sentinel no event enqueued before it is left; in that step it
\* writes the registry as it is to the file and returns; and once it has
\* returned no event leaves the queue and no handler task is created
C32_SentinelEndsConsumer ==
    [][/\ OnlyAppended \/ (HeadTaken /\ lifecycle_handler = "running")
       /\ (HeadTaken /\ ~OnlyAppended /\ HeadEvent = Sentinel) =>
             /\ lifecycle_handler' = "done"
             /\ last_registry' = File(kernel_registry)
             /\ TasksInFlight' = TasksInFlight
       /\ (HeadTaken /\ ~OnlyAppended /\ HeadEvent # Sentinel) =>
             /\ lifecycle_handler' = "running"
             /\ HeadEvent.event # "START" => TasksInFlight' = TasksInFlight + 1
       /\ lifecycle_handler = "done" =>
             /\ OnlyAppended
             /\ TasksInFlight' <= TasksInFlight
             /\ lifecycle_handler' = "done"
             /\ last_registry' = last_registry]_vars

\* the consumer has returned after it handled a kernel's CLEAN (the
\* kernel_terminated is out, the persisted registry is empty), and an event
\* that was injected behind the sentinel is still in the queue
C32_EventLeftBehindSentinel ==
    /\ lifecycle_handler = "done"
    /\ last_registry = File(EmptyDict)
    /\ \E k \in KernelIds : kernel_terminated[k] # <<>>
    /\ container_lifecycle_queue # <<>>
    /\ handlers = EmptyBag

----------------------------------------------------------------------------
(* kernel_terminated events per lifetime of a kernel.                      *)

\* kernel k has been created once, the creation has registered its handle,
\* and it was never restarted
OneLifetime(k) ==
    /\ \E c \in DOMAIN calls :
          /\ calls[c].op = "create" /\ calls[c].kernel_id = k /\ calls[c].pc = "created"
          /\ \A d \in DOMAIN calls :
                (calls[d].op = "create" /\ calls[d].kernel_id = k) => d = c
    /\ ~\E c \in DOMAIN calls : calls[c].op = "restart" /\ calls[c].kernel_id = k

\* the kernel_terminated events of kernel k that tell the end of a handle or
\* of a container (the 'already-terminated' answers to a DESTROY that finds
\* nothing are left out)
Terminations(k) ==
    SelectSeq(kernel_terminated[k], LAMBDA reason : reason # "already-terminated")

\* C33: for a kernel that has been created once and not restarted at most
\* one kernel_terminated event is published, even without counting the
\* 'already-terminated' ones
C33_OneTerminatedPerLifetime ==
    \A k \in KernelIds : OneLifetime(k) => Len(Terminations(k)) <= 1

----------------------------------------------------------------------------
(* Concurrent create_kernel calls: the RPC server runs each call as its    *)
(* own task, so a second call can reach the slot allocation while the      *)
(* first one is between its allocation and its spawn.                      *)

MaxConcurrent == 2

RpcCreateKernelConcurrent(k) == CreateKernelCall(k, MaxConcurrent)

NextAlloc ==
    \/ DispatchDestroy
    \/ \E h \in InFlight : HandleDestroyMissing(h)
    \/ \E h \in InFlight : HandleDestroyBackend(h)
    \/ DispatchClean
    \/ \E h \in InFlight : HandleCleanBackend(h)
    \/ \E h \in InFlight : HandleCleanForget(h)
    \/ \E h \in InFlight : HandleCleanTerminated(h)
    \/ \E cid \in DOMAIN containers : BackendDieEvent(cid)
    \/ \E k \in KernelIds : RpcCreateKernelConcurrent(k)
    \/ \E c \in DOMAIN calls : CreateAllocate(c)
    \/ \E c \in DOMAIN calls : CreateSpawn(c)
    \/ \E c \in DOMAIN calls : CreateRegister(c)
    \/ \E k \in KernelIds, event \in {"DESTROY", "CLEAN"} : InjectWaited(k, event)

SpecAlloc == Init /\ [][NextAlloc]_vars

\* the create_kernel calls that hold a reservation and have not spawned yet
Unspawned == {c \in DOMAIN calls : calls[c].op = "create" /\ calls[c].pc = "spawn"}

RECURSIVE ReservedBy(_, _)
ReservedBy(cs, d) ==
    IF cs = {} THEN 0
    ELSE LET c == CHOOSE x \in cs : TRUE IN calls[c].reserved[d] + ReservedBy(cs \ {c}, d)

\* call c is granted slots of device d in this step
Granted(c, d) ==
    /\ Has(calls, c) /\ calls[c].pc = "alloc"
    /\ calls'[c].reserved[d] > 0

\* C34: when a create_kernel call is granted slots of a device, these slots
\* together with the slots reserved by the calls that have not spawned their
\* container yet fit into the capacity of the device
C34_ReservedSlotNotGrantedTwice ==
    [][\A c \in DOMAIN calls, d \in Devices :
          Granted(c, d) =>
              ReservedBy(Unspawned \ {c}, d) + calls'[c].reserved[d] <= Capacity[d]]_vars


\* the containers that a create_kernel call has spawned and not yet registered
SpawnedUnregistered ==
    {SpawnedId(c) : c \in {x \in DOMAIN calls : calls[x].op = "create" /\ calls[x].pc = "register"}}

\* C35: the queue never holds a DESTROY 'terminated-unknown-container' for
\* a container that a create_kernel call has spawned and not yet registered
C35_NoDestroyOfKernelBeingCreated ==
    \A i \in DOMAIN container_lifecycle_queue :
        LET ev == container_lifecycle_queue[i] IN
        (ev.event = "DESTROY" /\ ev.reason = "terminated-unknown-container")
            => ev.container_id \notin SpawnedUnregistered


\* the DESTROY of a restart of kernel k, or the CLEAN that follows it, is
\* still in the queue or in a handler
RestartDestroyPending(k) ==
    \/ \E i \in DOMAIN container_lifecycle_queue :
          /\ container_lifecycle_queue[i].kernel_id = k
          /\ container_lifecycle_queue[i].reason = RestartReason
    \/ \E h \in InFlight : h.ev.kernel_id = k /\ h.ev.reason = RestartReason

\* restart call c shares its tracker with an earlier call that overlapped
\* with it and has gone through its own destroy-wait-recreate section
SharesTracker(c) ==
    /\ Restarting(c)
    /\ \E e \in DOMAIN calls \ {c} :
          /\ Restarting(e) /\ calls[e].tracker = calls[c].tracker
          /\ calls[e].pc = "r_done"

\* call c passes  await tracker.destroy_event.wait()  in this step
PassesDestroyWait(c) ==
    Has(calls, c) /\ calls[c].pc = "r_wait" /\ calls'[c].pc = "spawn"

\* C36: a restart call that shares the tracker of an earlier call starts
\* its re-creation only when its own DESTROY has been cleaned: no DESTROY or
\* CLEAN of the restart is pending and the old handle has left the registry
C36_SecondRestartWaitsForOwnClean ==
    [][\A c \in DOMAIN calls :
          (SharesTracker(c) /\ PassesDestroyWait(c)) =>
              /\ ~RestartDestroyPending(calls[c].kernel_id)
              /\ ~Has(kernel_registry, calls[c].kernel_id)]_vars


\* restart call c ends in this step: it returns or raises
RestartEnds(c) ==
    /\ Has(calls, c) /\ Restarting(c)
    /\ calls[c].pc \notin {"r_done", "r_timeout"}
    /\ calls'[c].pc \in {"r_done", "r_timeout"}

\* the tracker of call c is the one registered for its kernel
TrackerRegistered(rk, c) ==
    Has(rk, calls[c].kernel_id) /\ rk[calls[c].kernel_id] = calls[c].tracker

\* C37: when a restart_kernel call ends (success, timeout or failed
\* re-creation), its tracker is not registered any more and the tracker's
\* done event is set
C37_EndedRestartReleasesTracker ==
    [][\A c \in DOMAIN calls :
          RestartEnds(c) =>
              /\ ~TrackerRegistered(restarting_kernels', c)
              /\ trackers'[calls[c].tracker].done_event]_vars


\* the clean_all_kernels(blocking=True) waiters on kernel k that still wait
CleanWaiters(k) ==
    {c \in DOMAIN calls : /\ calls[c].op = "clean_all" /\ calls[c].kernel_id = k
                          /\ calls[c].pc = "waiting"}

\* the CLEAN handler takes the handle of kernel k out of the registry
Cleaned(k) == Has(kernel_registry, k) /\ ~Has(kernel_registry', k)

\* C38: when the CLEAN of a kernel is handled, the clean-events that
\* clean_all_kernels(blocking=True) registered on it are set, so that the
\* call stops waiting for that kernel
C38_CleanEventSurvivesInjects ==
    [][\A k \in KernelIds :
          Cleaned(k) => \A c \in CleanWaiters(k) : calls'[c].pc = "set"]_vars


----------------------------------------------------------------------------
(* execute_batch: runs the startup command of a batch kernel through       *)
(* execute() until it finishes, and publishes the outcome.                 *)

\* execute_batch tasks the agent starts
MaxBatches == 1

Batches == {c \in DOMAIN calls : calls[c].op = "batch"}

\* an exception leaves execute(): `except KeyError` publishes
\* kernel_terminated 'self-terminated'; any other exception leaves
\* execute_batch as well
BatchRaised(call, exc) ==
    IF exc = "KeyError"
    THEN [call EXCEPT !.pc = "b_done", !.published = Append(@, "kernel_terminated")]
    ELSE [call EXCEPT !.pc = "b_done", !.result = exc]

\* execute(): kernel_obj = self.kernel_registry[kernel_id], where a KeyError
\* becomes a RuntimeError; then await kernel_obj.execute(...)
BatchLooked(call) ==
    IF Has(kernel_registry, call.kernel_id)
    THEN [call EXCEPT !.pc = "b_run"]
    ELSE BatchRaised(call, "RuntimeError")

\* one pass of the while loop up to its first await: execute() waits for a
\* restart in progress or looks the kernel up
BatchExecute(call) ==
    IF ExecuteWaits(call.kernel_id)
    THEN [call EXCEPT !.pc = "b_wait", !.tracker = restarting_kernels[call.kernel_id]]
    ELSE BatchLooked(call)

\* the task starts: no handle, no batch
RpcExecuteBatch(k) ==
    /\ booted /\ Requested(k)
    /\ Cardinality(Batches) < MaxBatches
    /\ calls' = Put(calls, NextCall,
                    IF Has(kernel_registry, k)
                    THEN BatchExecute(Call("batch", k, "b_new", None))
                    ELSE [Call("batch", k, "b_done", None) EXCEPT !.result = "no such kernel"])
    /\ UNCHANGED <<agentVars, handlers, sync_alive, envVars>>

\* execute() resumes after done_event.wait()
BatchResume(c) ==
    /\ Has(calls, c) /\ calls[c].op = "batch" /\ calls[c].pc = "b_woken"
    /\ calls' = [calls EXCEPT ![c] = BatchLooked(calls[c])]
    /\ UNCHANGED <<agentVars, handlers, sync_alive, envVars>>

\* what kernel_obj.execute() may return: the status and, when finished,
\* whether the exit code is 0
BatchResults ==
    {[status |-> "finished", ok |-> TRUE], [status |-> "finished", ok |-> FALSE]}
    \cup (IF budget.events > 0
          THEN {[status |-> "exec-timeout", ok |-> FALSE], [status |-> "continued", ok |-> FALSE]}
          ELSE {})

\* the event that ends the batch for a result of execute()
TerminalEvent(result) ==
    IF result.status = "finished" /\ result.ok THEN "session_success" ELSE "session_failure"

\* kernel_obj.execute() returns: execute() injects DESTROY on exec-timeout;
\* execute_batch publishes and breaks, or goes round the loop in mode 'continue'
BatchReturn(c) ==
    LET k == calls[c].kernel_id IN
    /\ Has(calls, c) /\ calls[c].op = "batch" /\ calls[c].pc = "b_run"
    /\ \E result \in BatchResults :
          /\ calls' = [calls EXCEPT ![c] =
                IF result.status = "continued" THEN BatchExecute(calls[c])
                ELSE [calls[c] EXCEPT !.pc = "b_done", !.result = result.status,
                                      !.published = Append(@, TerminalEvent(result))]]
          /\ budget' = IF result.status = "finished" THEN budget
                       ELSE [budget EXCEPT !.events = @ - 1]
          /\ IF result.status = "exec-timeout"
             THEN /\ kernel_registry' = InjectedRegistry(kernel_registry, k, None)
                  /\ container_lifecycle_queue' =
                        Append(container_lifecycle_queue,
                               InjectedEvent(kernel_registry, k, "DESTROY", "exec-timeout",
                                             None, None))
             ELSE UNCHANGED <<kernel_registry, container_lifecycle_queue>>
    /\ UNCHANGED <<port_pool, alloc_map, restarting_kernels, trackers, resource_lock,
                   handlers, sync_alive, containers, kernel_terminated, booted,
                   last_registry, runner, auxVars>>

\* the task is cancelled while it is suspended: session_failure 'task-cancelled'
BatchCancel(c) ==
    /\ Has(calls, c) /\ calls[c].op = "batch"
    /\ calls[c].pc \in {"b_wait", "b_woken", "b_run"}
    /\ budget.events > 0
    /\ budget' = [budget EXCEPT !.events = @ - 1]
    /\ calls' = [calls EXCEPT ![c].pc = "b_done", ![c].result = "cancelled",
                              ![c].published = Append(@, "session_failure")]
    /\ UNCHANGED <<agentVars, handlers, sync_alive, containers, kernel_terminated,
                   booted, last_registry, runner, auxVars>>

\* one kernel that runs a batch while it is destroyed, restarted or stops
NextBatch ==
    \/ DispatchDestroy
    \/ \E h \in InFlight : HandleDestroyMissing(h)
    \/ \E h \in InFlight : HandleDestroyBackend(h)
    \/ DispatchClean
    \/ \E h \in InFlight : HandleCleanBackend(h)
    \/ \E h \in InFlight : HandleCleanForget(h)
    \/ \E h \in InFlight : HandleCleanTerminated(h)
    \/ \E cid \in DOMAIN containers : ContainerExit(cid)
    \/ \E cid \in DOMAIN containers : BackendDieEvent(cid)
    \/ \E k \in ExecKernels : RpcCreateKernel(k)
    \/ \E c \in DOMAIN calls : CreateAllocate(c)
    \/ \E c \in DOMAIN calls : CreateSpawn(c)
    \/ \E c \in DOMAIN calls : CreateRegister(c)
    \/ \E k \in ExecKernels : RpcRestartKernel(k)
    \/ \E c \in DOMAIN calls : RestartLock(c)
    \/ \E c \in DOMAIN calls : RestartDestroyed(c)
    \/ \E c \in DOMAIN calls : RestartTimeout(c)
    \/ \E c \in DOMAIN calls : RestartFinish(c)
    \/ \E k \in ExecKernels : RpcExecuteBatch(k)
    \/ \E c \in DOMAIN calls : BatchResume(c)
    \/ \E c \in DOMAIN calls : BatchReturn(c)
    \/ \E c \in DOMAIN calls : BatchCancel(c)

SpecBatch == Init /\ [][NextBatch]_vars

\* the batch calls that found their kernel in the registry and have ended
EndedBatches ==
    {c \in Batches : calls[c].pc = "b_done" /\ calls[c].result # "no such kernel"}

\* C39: an execute_batch call that found its kernel in the registry has
\* published exactly one terminal event when it has ended
C39_BatchPublishesOneTerminalEvent ==
    \A c \in EndedBatches : Len(calls[c].published) = 1


----------------------------------------------------------------------------
(* The running agent whose tasks keep running.                             *)

\* the steps the agent takes by itself once they can be taken: the
\* consumer, the handlers, the end of a started reconciler pass, and the
\* continuations of create_kernel and restart_kernel calls (the 60 s timer
\* of restart_kernel included).  The backend's report of a stopped
\* container is not among them: it may be missed.
AgentProgress ==
    \/ DispatchDestroy
    \/ \E h \in InFlight : HandleDestroyMissing(h)
    \/ \E h \in InFlight : HandleDestroyBackend(h)
    \/ DispatchClean
    \/ \E h \in InFlight : HandleCleanBackend(h)
    \/ \E h \in InFlight : HandleCleanForget(h)
    \/ \E h \in InFlight : HandleCleanTerminated(h)
    \/ SyncEnd
    \/ \E c \in DOMAIN calls : CreateAllocate(c)
    \/ \E c \in DOMAIN calls : CreateSpawn(c)
    \/ \E c \in DOMAIN calls : CreateRegister(c)
    \/ \E c \in DOMAIN calls : RestartLock(c)
    \/ \E c \in DOMAIN calls : RestartDestroyed(c)
    \/ \E c \in DOMAIN calls : RestartTimeout(c)
    \/ \E c \in DOMAIN calls : RestartFinish(c)

SpecLive == Spec /\ WF_vars(AgentProgress)

\* kernel k has a handle, none of its containers is alive, no restart
\* tracker is registered for it, and a reconciler pass that enumerated no
\* alive container of k is under way
StaleAtPass(k) ==
    /\ Has(kernel_registry, k)
    /\ k \notin AliveKernelIds
    /\ ~Has(restarting_kernels, k)
    /\ resource_lock = "sync" /\ ~Has(sync_alive, k)

\* the backend never reported the stop of a container of kernel k
NotificationMissed(k) ==
    \A c \in DOMAIN containers : containers[c].kernel_id = k => ~containers[c].notified

\* C40: a registered kernel without an alive container and without a restart
\* tracker, met by a reconciler pass, is eventually out of the registry (or
\* alive again through a re-creation), whether or not the backend reports
\* the stop of its container
C40_StaleKernelRemoved ==
    \A k \in KernelIds :
        StaleAtPass(k) ~> (~Has(kernel_registry, k) \/ k \in AliveKernelIds)

\* C40 witness: the container of a registered kernel stopped, the backend
\* has not reported it, and the CLEAN 'self-terminated' that a finished
\* reconciler pass enqueued for the kernel is being handled
C40_ReconcilerCleansUnreported ==
    \E k \in KernelIds :
        /\ Has(kernel_registry, k) /\ k \notin AliveKernelIds
        /\ ~Has(restarting_kernels, k)
        /\ \E c \in DOMAIN containers : containers[c].kernel_id = k
        /\ NotificationMissed(k)
        /\ resource_lock = ""
        /\ \E h \in InFlight :
              /\ h.ev.event = "CLEAN" /\ h.ev.kernel_id = k
              /\ h.ev.reason = "self-terminated" /\ h.pc = "clean"
====
